---------------------------- MODULE Spec2Model ----------------------------
(***************************************************************************)
(* A model of the message transport and multiplexing core of aasdk:        *)
(*   io::Promise                  include/aasdk/IO/Promise.hpp             *)
(*   transport::Transport         src/Transport/Transport.cpp              *)
(*   messenger::MessageInStream   src/Messenger/MessageInStream.cpp        *)
(*   messenger::Messenger         src/Messenger/Messenger.cpp              *)
(*                                                                         *)
(* Every strand (boost::asio::io_service::strand) is a FIFO sequence of    *)
(* tasks; one action runs the task at the head of one strand.  A call that *)
(* comes from outside the modelled components (a service channel, the      *)
(* physical link) is run by its action directly: the caller chooses when   *)
(* it is made, so every position in the strand's order is covered.         *)
(***************************************************************************)
EXTENDS Integers, Sequences, FiniteSets, TLC

(***************************************************************************)
(* Bounds of the model.                                                    *)
(***************************************************************************)
\* Number of Promise objects of the Promise specification.
NumPromises == 2
\* Number of then/resolve/reject calls made on them.
MaxPromiseCalls == 4

\* Bytes the peer sends in the Transport specification.
TransportWireLen == 4
\* Receive requests the clients of the Transport specification make.
MaxRequests == 4
\* Largest size a client of the Transport specification asks for.
MaxReqSize == 2
\* Frames of a stream of the MessageInStream specification.
MaxFrames == 4
\* Frames of a stream of the pipeline specification.
MaxPipeFrames == 3
\* startReceive calls of the stream's consumer that find a receive in flight.
MaxInProgress == 1
\* Frames of a stream of the Messenger's receive specification.
MaxMessengerFrames == 3
\* enqueueReceive calls of the service channels.
MaxReceives == 2
\* Frames of a stream of the Messenger's stop specification.
MaxStopFrames == 2
\* enqueueSend calls of the service channels.
MaxSends == 4
\* Frames of a stream of encrypted frames.
MaxCryptFrames == 3
\* Frames whose decryption fails.
MaxDecryptFailures == 1
\* send calls of the clients of the Transport.
MaxTransportSends == 4
\* enqueueSend calls in the stop specification.
MaxStopSends == 2
\* Transfer requests made on the USBEndpoint.
MaxTransfers == 2
\* Completion callbacks for a transfer the USBEndpoint holds no more.
MaxStrayCallbacks == 1
\* send and receive calls made on the TCPEndpoint.
MaxTcpOperations == 2
\* start calls made on the USBHub.
MaxHubStarts == 2
\* cancel calls made on the USBHub.
MaxHubCancels == 2
\* Device arrivals libusb reports to the USBHub.
MaxDevices == 2
\* Frames of a stream of the specification for arbitrary streams.
MaxAnyFrames == 3
\* Largest size of the data a buffer view is constructed over.
MaxDataSize == 3
\* Largest offset a buffer view is constructed with.
MaxDataOffset == 4
\* stop() calls made on the Messenger in the strand specification.
MaxStopCalls == 2
\* Tasks other than promise callbacks posted to the executors.
MaxTasks == 1
\* Threads that run the io_service.
NumWorkers == 2
\* Largest number of bytes one bulk-OUT transfer carries.
MaxPacketSize == 2
\* send calls the clients of the USBTransport make.
MaxUSBSends == 3
\* then/resolve/reject calls made in the executor specification.
MaxExecutorCalls == 2
\* receive() calls of the application on the service channels.
MaxServiceReceives == 2
\* Messages the service channels handle.
MaxServiceMessages == 3

\* An empty std::function, a reset executor reference, a value not yet set.
Null == "null"

\* A null shared_ptr.
NullPtr == [null |-> TRUE]

Min(a, b) == IF a < b THEN a ELSE b

RECURSIVE Concat(_)
\* The concatenation of a sequence of sequences.
Concat(ss) == IF ss = <<>> THEN <<>> ELSE Head(ss) \o Concat(Tail(ss))

\* s without its first n elements.
Drop(s, n) == SubSeq(s, n + 1, Len(s))

\* The first n elements of s.
Take(s, n) == SubSeq(s, 1, Min(n, Len(s)))

IsPrefix(s, t) == Len(s) <= Len(t) /\ s = SubSeq(t, 1, Len(s))

(***************************************************************************)
(* io::Promise.  A promise is a record of its two handlers (Null for an    *)
(* empty std::function) and of its IOContextWrapper: the io_service or     *)
(* strand it posts to, Null once reset.                                    *)
(***************************************************************************)
\* Promise::defer(executor): no handler, the executor bound.
Promise_defer(executor) ==
    [resolveHandler |-> Null, rejectHandler |-> Null, executor |-> executor]

\* Promise::then
Promise_then(p, resolveHandler, rejectHandler) ==
    [p EXCEPT !.resolveHandler = resolveHandler, !.rejectHandler = rejectHandler]

\* Promise::isPending, IOContextWrapper::isActive
isPending(p) == p.executor /= Null

\* A promise that posts to the io_service whatever it was constructed with.
PostedTo_IoService(p) == "ioService"

\* The executor ioContextWrapper_.post hands the callback to: the io_service
\* or the strand the promise was constructed with.
PostedTo(p) == p.executor

\* A resolve that forgets to ask isPending().
Promise_resolvePosts_NoPendingCheck(p) == p.resolveHandler /= Null

\* The condition under which Promise::resolve posts the resolve handler.
Promise_resolvePosts(p) == p.resolveHandler /= Null /\ isPending(p)

\* The condition under which Promise::reject posts the reject handler.
Promise_rejectPosts(p) == p.rejectHandler /= Null /\ isPending(p)

\* A resolve that resets the executor reference only when it posted.
Promise_resolve_KeepsPending(p) ==
    [p EXCEPT !.resolveHandler = IF Promise_resolvePosts(p) THEN Null ELSE @,
              !.rejectHandler = Null,
              !.executor = IF Promise_resolvePosts(p) THEN Null ELSE @]

\* The promise after Promise::resolve: the posted handler is moved out, the
\* executor reference is reset, the reject handler is dropped.
Promise_resolve(p) ==
    [p EXCEPT !.resolveHandler = IF Promise_resolvePosts(p) THEN Null ELSE @,
              !.rejectHandler = Null,
              !.executor = Null]

\* The promise after Promise::reject.
Promise_reject(p) ==
    [p EXCEPT !.rejectHandler = IF Promise_rejectPosts(p) THEN Null ELSE @,
              !.resolveHandler = Null,
              !.executor = Null]

VARIABLES
    \* ---- Promise specification ----
    promises,      \* the Promise objects
    posted,        \* the tasks posted to the executor, not yet run
    invoked,       \* the callbacks the executor has run
    prHist,        \* the calls made so far, each with what it posted
    bound,         \* the executor each promise was constructed with
    running,       \* the tasks the executors' threads are running
    \* ---- the physical link ----
    frames,        \* the frames the peer sends (empty in the Transport specification)
    wireAll,       \* every byte the peer sends on the link
    wire,          \* the bytes of wireAll no physical read has delivered yet
    linkWhole,     \* TRUE: a physical read delivers all the bytes left on the link
    chunks,        \* how the physical reads so far cut the bytes
    \* ---- Transport ----
    receiveQueue_,      \* (size, promise) of the receive requests, in order
    receivedDataSink_,  \* the committed bytes not yet consumed
    physReads,          \* the physical reads issued by enqueueReceive and not completed
    tStrand,            \* the receive calls dispatched to receiveStrand_, not yet run
    tResolved,          \* the receive promises resolved so far, with their data
    tNextId,            \* the number of the next receive request of a client
    tBatch,             \* the largest number of requests one physical read resolved
    tStop,              \* "running", or "stopped" once stop() was called
    tRejected,          \* every reject of a receive promise, in order
    sendQueue_,         \* (data, promise) of the sends, in order
    physSends,          \* the elements the subclass was handed and has not completed
    tSendCalls,         \* the number of send calls made
    tSendStarted,       \* every enqueueSend(element) call of the subclass, in order
    tSendSettled,       \* every resolve or reject of a send promise, in order
    bulkOut,            \* every bulk-OUT transfer that completed: (id, offset, bytes)
    \* ---- MessageInStream ----
    inStrand,                   \* the tasks queued on the stream's strand_
    promise_,                   \* the main promise (NullPtr: no receive in flight)
    interleavedPromise_,        \* the promise for off-channel messages
    isNewMessage_,
    isInterleaved_,
    originalMessageChannelId_,
    message_,                   \* the message being assembled (NullPtr: none)
    messageBuffer_,             \* channel -> the suspended message (NullPtr: none)
    thisFrameType_,
    frameSize_,
    emitted,                    \* every resolve(message) the stream made, in order
    framesDone,                 \* the frames whose payload handler has run
    inProgress,                 \* the startReceive calls rejected with OPERATION_IN_PROGRESS
    inRejected,                 \* the errors the stream rejected its main promise with
    \* ---- Messenger ----
    rStrand,                    \* the tasks queued on the Messenger's receiveStrand_
    sStrand,                    \* the tasks queued on the Messenger's sendStrand_
    channelReceivePromiseQueue_,  \* channel -> the receive promises waiting, in order
    channelReceiveMessageQueue_,  \* channel -> the messages held for a later receive
    channelSendPromiseQueue_,     \* (message, promise) of the sends, in order
    currentPromiseIndex_,
    currentMessageIndex_,
    outStream,                  \* the messages handed to the MessageOutStream, not yet written
    enqLog,                     \* every enqueueReceive call: its channel, the frames handled by then
    delivered,                  \* every resolve or reject of a caller's receive promise
    sendLog,                    \* the number of enqueueSend calls
    streamed,                   \* the sends handed to the MessageOutStream, in order
    sendSettled,                \* every resolve or reject of a caller's send promise
    outSettled,                 \* every resolve or reject of a promise of stream()
    mStop,                      \* the progress of Messenger::stop
    \* ---- USBEndpoint ----
    endpointAddress_,
    endpointSelf_,              \* self_ /= nullptr
    transfers_,                 \* the (transfer, promise) pairs of the transfers under way
    usbSubmitted,               \* the transfers libusb accepted and has not completed
    usbCancelled,               \* the transfers cancelTransfer was called on
    usbFreed,                   \* the transfers freed
    epRequests,                 \* the number of transfer requests made
    epLast,                     \* the inputs of the last transfer request
    epSettled,                  \* every resolve or reject of a request's promise, in order
    epCallback,                 \* the last completion callback
    epStray,                    \* the number of callbacks for a transfer completed before
    \* ---- TCPEndpoint ----
    tcpOperations,              \* the asynchronous operations under way
    tcpClosed,                  \* the socket was closed
    tcpRequests,                \* the number of send and receive calls made
    tcpSettled,                 \* every resolve or reject of a call's promise, in order
    \* ---- USBHub ----
    hotplugPromise_,            \* the discovery promise (NullPtr: none)
    hubSelf_,                   \* self_ /= nullptr: the hotplug callback is registered
    queryChainQueue_,           \* the query chains started and not erased, in order
    hubStrand,                  \* the handlers of query chain promises posted to strand_
    hubChains,                  \* the number of query chains created
    hubStarts,                  \* the number of start calls
    hubCancels,                 \* the number of cancel calls
    hubArrivals,                \* the number of device arrivals
    hubDevice,                  \* the last device arrival: its descriptor, what succeeded
    hubSettled,                 \* every resolve or reject of a discovery promise, in order
    hubOpened,                  \* the devices usbWrapper_.open was called on
    \* ---- the threads at work in the Messenger and the MessageInStream ----
    active,                     \* the functions in execution, each with where it runs
    stopCalls,                  \* the number of stop() calls made
    stopPending,                \* the tasks of stop() dispatched and not yet started
    \* ---- common::DataBuffer / DataConstBuffer ----
    dataCall,                   \* the constructor called last, with its arguments
    dataView,                   \* the buffer it constructed
    \* ---- service channels ----
    receivePromises,            \* per service, the event handlers bound in its receive promises
    handledMessages,            \* the messages messageHandler has handled, with what it did
    serviceReceives             \* the receive() calls of the application

promiseVars == <<promises, posted, invoked, prHist, bound, running>>
linkVars == <<frames, wireAll, wire, linkWhole, chunks>>
\* The Transport's own state, and the MessageInStream's, without the strands.
transportSend == <<sendQueue_, physSends, tSendCalls, tSendStarted, tSendSettled, bulkOut>>
transportStop == <<tStop, tRejected>>
transportReceive == <<receiveQueue_, receivedDataSink_, physReads, tResolved, tNextId, tBatch,
                      transportStop>>
transportState == <<transportReceive, transportSend>>
inStreamState == <<promise_, interleavedPromise_, isNewMessage_, isInterleaved_,
                   originalMessageChannelId_, message_, messageBuffer_, thisFrameType_,
                   frameSize_, emitted, framesDone, inProgress,
                   inRejected>>
\* The MessageInStream's state without the interleaved promise, which the
\* Messenger installs.
inStreamOwn == <<promise_, isNewMessage_, isInterleaved_, originalMessageChannelId_, message_,
                 messageBuffer_, thisFrameType_, frameSize_, emitted, framesDone, inProgress,
                   inRejected>>
strands == <<tStrand, inStrand, rStrand>>
\* The Messenger's receive side and its send side.
messengerReceive == <<channelReceivePromiseQueue_, channelReceiveMessageQueue_,
                      currentPromiseIndex_, currentMessageIndex_, enqLog, delivered>>
messengerSend == <<sStrand, channelSendPromiseQueue_, outStream, sendLog, streamed, sendSettled,
                   outSettled>>
messengerState == <<messengerReceive, messengerSend, mStop>>

usbEndpointState == <<endpointAddress_, endpointSelf_, transfers_, usbSubmitted, usbCancelled,
                      usbFreed, epRequests, epLast, epSettled, epCallback, epStray>>
tcpEndpointState == <<tcpOperations, tcpClosed, tcpRequests, tcpSettled>>
usbHubState == <<hotplugPromise_, hubSelf_, queryChainQueue_, hubStrand, hubChains, hubStarts,
                 hubCancels, hubArrivals, hubDevice, hubSettled, hubOpened>>
endpointVars == <<usbEndpointState, tcpEndpointState, usbHubState>>

strandAccessState == <<active, stopCalls, stopPending>>
dataState == <<dataCall, dataView>>
serviceState == <<receivePromises, handledMessages, serviceReceives>>
unitVars == <<strandAccessState, dataState, serviceState>>

vars == <<promiseVars, linkVars, transportState, inStreamState, strands, messengerState,
          endpointVars, unitVars>>

PromiseIds == 1..NumPromises
Values == {"v1", "v2"}

\* Promise::defer(executor) for every promise, b[i] the executor of promise i.
PromiseInitOn(b) ==
    /\ bound = b
    /\ promises = [i \in PromiseIds |-> Promise_defer(b[i])]
    /\ posted = <<>>
    /\ invoked = <<>>
    /\ prHist = <<>>
    /\ running = {}

PromiseInit == PromiseInitOn([i \in PromiseIds |-> "ioService"])

\* then(resolveHandler, rejectHandler) on promise i; the reject handler
\* defaults to an empty one.
PromiseThenCall ==
    \E i \in PromiseIds, rh \in {Null, "onResolve"}, jh \in {Null, "onReject"} :
        /\ Len(prHist) < MaxPromiseCalls
        /\ promises' = [promises EXCEPT ![i] = Promise_then(@, rh, jh)]
        /\ prHist' = Append(prHist, [promise |-> i, op |-> "then", posts |-> FALSE])
        /\ UNCHANGED <<posted, invoked, bound, running>>

\* resolve(v) on promise i.
PromiseResolveCall ==
    \E i \in PromiseIds, v \in Values :
        /\ Len(prHist) < MaxPromiseCalls
        /\ posted' = IF Promise_resolvePosts(promises[i])
                     THEN Append(posted, [promise |-> i,
                                          handler |-> promises[i].resolveHandler,
                                          arg |-> v,
                                          executor |-> PostedTo(promises[i])])
                     ELSE posted
        /\ promises' = [promises EXCEPT ![i] = Promise_resolve(@)]
        /\ prHist' = Append(prHist, [promise |-> i, op |-> "resolve",
                                     posts |-> Promise_resolvePosts(promises[i])])
        /\ UNCHANGED <<invoked, bound, running>>

\* reject(e) on promise i.
PromiseRejectCall ==
    \E i \in PromiseIds, e \in Values :
        /\ Len(prHist) < MaxPromiseCalls
        /\ posted' = IF Promise_rejectPosts(promises[i])
                     THEN Append(posted, [promise |-> i,
                                          handler |-> promises[i].rejectHandler,
                                          arg |-> e,
                                          executor |-> PostedTo(promises[i])])
                     ELSE posted
        /\ promises' = [promises EXCEPT ![i] = Promise_reject(@)]
        /\ prHist' = Append(prHist, [promise |-> i, op |-> "reject",
                                     posts |-> Promise_rejectPosts(promises[i])])
        /\ UNCHANGED <<invoked, bound, running>>

\* The executor runs the oldest posted task.
PromiseRunPosted ==
    /\ posted /= <<>>
    /\ invoked' = Append(invoked, Head(posted))
    /\ posted' = Tail(posted)
    /\ UNCHANGED <<promises, prHist, bound, running>>

\* The io_service and a strand of it.
Executors == {"ioService", "strand"}

\* The tasks posted so far that are no promise callbacks.
PlainTasks ==
    Cardinality({k \in 1..Len(posted) : posted[k].promise = 0})
      + Cardinality({k \in 1..Len(invoked) : invoked[k].promise = 0})

\* Some thread posts a task of its own to executor e.
ExecutorPost ==
    \E e \in Executors :
        /\ PlainTasks < MaxTasks
        /\ posted' = Append(posted, [promise |-> 0, handler |-> "task", arg |-> "v1",
                                     executor |-> e])
        /\ UNCHANGED <<promises, invoked, prHist, bound, running>>

\* The position in posted of the oldest task posted to executor e (0: none).
OldestOf(e) ==
    IF \E k \in 1..Len(posted) : posted[k].executor = e
    THEN CHOOSE k \in 1..Len(posted) :
             /\ posted[k].executor = e
             /\ \A j \in 1..(k - 1) : posted[j].executor /= e
    ELSE 0

\* The tasks of executor e that a thread is running.
RunningOn(e) == {t \in running : t.on = e}

\* Whether executor e may start its oldest task: a strand runs one task at a
\* time, the io_service one per thread; a task of the strand takes one of the
\* io_service's threads.
ExecutorFree(e) ==
    /\ Cardinality(running) < NumWorkers
    /\ e = "strand" => RunningOn("strand") = {}

\* A thread of the io_service starts the oldest task of executor e.
ExecutorBegin ==
    \E e \in Executors :
        /\ OldestOf(e) /= 0
        /\ ExecutorFree(e)
        /\ LET k == OldestOf(e)
               task == [promise |-> posted[k].promise, handler |-> posted[k].handler,
                        arg |-> posted[k].arg, on |-> e, seq |-> Len(invoked) + 1]
           IN  /\ running' = running \cup {task}
               /\ invoked' = Append(invoked, task)
               /\ posted' = SubSeq(posted, 1, k - 1) \o SubSeq(posted, k + 1, Len(posted))
        /\ UNCHANGED <<promises, prHist, bound>>

\* A running task returns.
ExecutorEnd ==
    \E t \in running :
        /\ running' = running \ {t}
        /\ UNCHANGED <<promises, posted, invoked, prHist, bound>>

\* The positions of prHist that are calls of resolve or reject on promise i.
SettleCalls(i) ==
    {k \in 1..Len(prHist) : prHist[k].promise = i /\ prHist[k].op \in {"resolve", "reject"}}

\* C2: for every promise and every interleaving of then/resolve/reject, at
\* most one callback is ever dispatched, at most once, and every resolve or
\* reject that comes after the first resolve or reject posts nothing.
C2_PromiseSettlesOnce ==
    \A i \in PromiseIds :
        /\ Cardinality({k \in SettleCalls(i) : prHist[k].posts}) <= 1
        /\ \A k \in SettleCalls(i) :
               (\E j \in SettleCalls(i) : j < k) => ~prHist[k].posts
        /\ Cardinality({k \in 1..Len(posted) : posted[k].promise = i})
             + Cardinality({k \in 1..Len(invoked) : invoked[k].promise = i}) <= 1

\* A promise whose callback was dispatched by its first resolve, and on which
\* then, reject and resolve were called again afterwards.
C2_Witness ==
    \E i \in PromiseIds :
        \E a, b, c \in 1..Len(prHist) :
            /\ a < b /\ b < c
            /\ prHist[a].promise = i /\ prHist[a].op \in {"resolve", "reject"}
            /\ prHist[a].posts
            /\ prHist[b].promise = i /\ prHist[b].op = "then"
            /\ prHist[c].promise = i /\ prHist[c].op \in {"resolve", "reject"}

(***************************************************************************)
(* The received data sink (common::DataSink, a circular buffer of bytes).  *)
(***************************************************************************)
\* DataSink::getAvailableSize
DataSink_getAvailableSize(sink) == Len(sink)

\* DataSink::fill then DataSink::commit(n): the n bytes the physical read
\* wrote are appended after the bytes already held.
DataSink_commit(sink, bytes) == sink \o bytes

\* DataSink::consume(n): the oldest n bytes, and the sink without them.
DataSink_consume(sink, n) == [data |-> Take(sink, n), sink |-> Drop(sink, n)]

(***************************************************************************)
(* transport::Transport, the receive side.                                 *)
(***************************************************************************)
RECURSIVE distributeReceivedData(_, _)

\* A distribution that goes on past a request the sink cannot serve yet.
distributeReceivedData_NoBreak(queue, sink) ==
    IF queue = <<>>
    THEN [queue |-> <<>>, sink |-> sink, resolved |-> <<>>, read |-> FALSE]
    ELSE IF DataSink_getAvailableSize(sink) < Head(queue).size
         THEN LET rest == distributeReceivedData(Tail(queue), sink)
              IN  [rest EXCEPT !.queue = <<Head(queue)>> \o @, !.read = TRUE]
         ELSE LET c == DataSink_consume(sink, Head(queue).size)
                  rest == distributeReceivedData(Tail(queue), c.sink)
              IN  [rest EXCEPT !.resolved = <<[request |-> Head(queue), data |-> c.data]>> \o @]

\* A distribution that hands out the bytes and leaves them in the sink.
distributeReceivedData_NoConsume(queue, sink) ==
    IF queue = <<>>
    THEN [queue |-> <<>>, sink |-> sink, resolved |-> <<>>, read |-> FALSE]
    ELSE IF DataSink_getAvailableSize(sink) < Head(queue).size
         THEN [queue |-> queue, sink |-> sink, resolved |-> <<>>, read |-> TRUE]
         ELSE LET c == DataSink_consume(sink, Head(queue).size)
                  rest == distributeReceivedData(Tail(queue), sink)
              IN  [rest EXCEPT !.resolved = <<[request |-> Head(queue), data |-> c.data]>> \o @]

\* A distribution that asks for a physical read unless the sink holds more
\* bytes than the request needs.
distributeReceivedData_ReadsUnlessMore(queue, sink) ==
    IF queue = <<>>
    THEN [queue |-> <<>>, sink |-> sink, resolved |-> <<>>, read |-> FALSE]
    ELSE IF DataSink_getAvailableSize(sink) <= Head(queue).size
         THEN [queue |-> queue, sink |-> sink, resolved |-> <<>>, read |-> TRUE]
         ELSE LET c == DataSink_consume(sink, Head(queue).size)
                  rest == distributeReceivedData(Tail(queue), c.sink)
              IN  [rest EXCEPT !.resolved = <<[request |-> Head(queue), data |-> c.data]>> \o @]

\* Transport::distributeReceivedData on a receive queue and a sink: the queue
\* and the sink it leaves, the requests it resolved (in order, each with its
\* data) and whether it issued a physical read (enqueueReceive).
distributeReceivedData(queue, sink) ==
    IF queue = <<>>
    THEN [queue |-> <<>>, sink |-> sink, resolved |-> <<>>, read |-> FALSE]
    ELSE IF DataSink_getAvailableSize(sink) < Head(queue).size
         THEN [queue |-> queue, sink |-> sink, resolved |-> <<>>, read |-> TRUE]
         ELSE LET c == DataSink_consume(sink, Head(queue).size)
                  rest == distributeReceivedData(Tail(queue), c.sink)
              IN  [rest EXCEPT !.resolved = <<[request |-> Head(queue), data |-> c.data]>> \o @]

\* The tasks that resolving the promises of `resolved` posts to `executor`.
ResolvePosts(resolved, executor) ==
    LET mine == SelectSeq(resolved, LAMBDA r : Promise_resolvePosts(r.request.promise)
                                               /\ r.request.promise.executor = executor)
    IN  [k \in 1..Len(mine) |->
            [handler |-> mine[k].request.promise.resolveHandler, arg |-> mine[k].data]]

\* What a run r of distributeReceivedData leaves behind.
TransportApply(r) ==
    /\ receiveQueue_' = r.queue
    /\ receivedDataSink_' = r.sink
    /\ tResolved' = tResolved \o
           [k \in 1..Len(r.resolved) |->
               [id |-> r.resolved[k].request.id, size |-> r.resolved[k].request.size,
                data |-> r.resolved[k].data]]
    /\ inStrand' = inStrand \o ResolvePosts(r.resolved, "strand_")

\* A receive that runs distributeReceivedData whatever the queue held.
Transport_receive_AlwaysDistributes(size, promise) ==
    LET queue == Append(receiveQueue_, [size |-> size, promise |-> promise, id |-> tNextId])
        r == distributeReceivedData(queue, receivedDataSink_)
    IN  /\ TransportApply(r)
        /\ physReads' = physReads + (IF r.read THEN 1 ELSE 0)
        /\ tNextId' = tNextId + 1
        /\ UNCHANGED <<tBatch, transportStop, transportSend>>

\* The task Transport::receive(size, promise) dispatches to receiveStrand_.
Transport_receive(size, promise) ==
    LET queue == Append(receiveQueue_, [size |-> size, promise |-> promise, id |-> tNextId])
        r == IF Len(queue) = 1
             THEN distributeReceivedData(queue, receivedDataSink_)
             ELSE [queue |-> queue, sink |-> receivedDataSink_, resolved |-> <<>>,
                   read |-> FALSE]
    IN  /\ TransportApply(r)
        /\ physReads' = physReads + (IF r.read THEN 1 ELSE 0)
        /\ tNextId' = tNextId + 1
        /\ UNCHANGED <<tBatch, transportStop, transportSend>>

\* The promise of a client of the Transport outside the model.
ClientPromise == Promise_then(Promise_defer("ioService"), "onData", "onError")

\* A client calls receive(size, promise).
TransportClientReceive ==
    \E size \in 0..MaxReqSize :
        /\ tNextId <= MaxRequests
        /\ Transport_receive(size, ClientPromise)
        /\ UNCHANGED tStrand

\* receiveStrand_ runs the oldest receive call of the message stream.
TransportRunReceive ==
    /\ tStrand /= <<>>
    /\ Transport_receive(Head(tStrand).size, Head(tStrand).promise)
    /\ tStrand' = Tail(tStrand)

\* The sizes the outstanding physical read may complete with.
ChunkSizes == IF linkWhole THEN {Len(wire)} ELSE 1..Len(wire)

\* How the physical reads cut the bytes, after one more read of n bytes.
ChunksAfter(n) ==
    CASE chunks = "none" /\ n = Len(wireAll) -> "whole"
      [] chunks \in {"none", "bytewise"} /\ n = 1 -> "bytewise"
      [] OTHER -> "mixed"

\* A receiveHandler whose commit forgets the bytes the sink already held.
CommittedSink_Replace(bytes) == bytes

\* The sink after receiveHandler's receivedDataSink_.commit(bytesTransferred).
CommittedSink(bytes) == DataSink_commit(receivedDataSink_, bytes)

\* Transport::receiveHandler(bytesTransferred): the outstanding physical read
\* completes with the next n bytes of the link.
Transport_receiveHandler ==
    \E n \in ChunkSizes :
        /\ physReads > 0
        /\ wire /= <<>>
        /\ LET r == distributeReceivedData(receiveQueue_, CommittedSink(Take(wire, n)))
           IN  /\ TransportApply(r)
               /\ physReads' = physReads - 1 + (IF r.read THEN 1 ELSE 0)
               /\ tBatch' = IF Len(r.resolved) > tBatch THEN Len(r.resolved) ELSE tBatch
        /\ wire' = Drop(wire, n)
        /\ chunks' = ChunksAfter(n)
        /\ UNCHANGED <<tStrand, tNextId, frames, wireAll, linkWhole, transportStop,
                       transportSend>>

\* The tasks that rejecting the promises of the requests of `queue` with e
\* posts to `executor`.
RejectPosts(queue, e, executor) ==
    LET mine == SelectSeq(queue, LAMBDA r : Promise_rejectPosts(r.promise)
                                            /\ r.promise.executor = executor)
    IN  [k \in 1..Len(mine) |-> [handler |-> mine[k].promise.rejectHandler, arg |-> e]]

\* A rejection that stops after the oldest request.
Transport_rejectReceivePromises_FirstOnly(e) ==
    /\ tRejected' = tRejected \o
           [k \in 1..Min(1, Len(receiveQueue_)) |->
               [id |-> receiveQueue_[k].id, size |-> receiveQueue_[k].size, error |-> e]]
    /\ inStrand' = inStrand \o RejectPosts(Take(receiveQueue_, 1), e, "strand_")
    /\ receiveQueue_' = Tail(receiveQueue_)

\* Transport::rejectReceivePromises(e)
Transport_rejectReceivePromises(e) ==
    /\ tRejected' = tRejected \o
           [k \in 1..Len(receiveQueue_) |->
               [id |-> receiveQueue_[k].id, size |-> receiveQueue_[k].size, error |-> e]]
    /\ inStrand' = inStrand \o RejectPosts(receiveQueue_, e, "strand_")
    /\ receiveQueue_' = <<>>

\* stop() of the subclass: the transfers under way are cancelled.
TransportStop ==
    /\ tStop = "running"
    /\ tStop' = "stopped"
    /\ UNCHANGED <<receiveQueue_, receivedDataSink_, physReads, tResolved, tNextId, tBatch,
                   tRejected, transportSend, tStrand, inStrand>>

\* The cancelled physical read completes with OPERATION_ABORTED, and the
\* subclass's handler calls rejectReceivePromises with that error.
TransportReceiveAborted ==
    /\ tStop = "stopped"
    /\ physReads > 0
    /\ physReads' = physReads - 1
    /\ Transport_rejectReceivePromises("OPERATION_ABORTED")
    /\ UNCHANGED <<receivedDataSink_, tResolved, tNextId, tBatch, tStop, transportSend,
                   tStrand>>

\* The errors a failed physical read reports.
ReadErrors == {"USB_TRANSFER", "TCP_TRANSFER"}

\* The physical read under way fails with error e, and the subclass's
\* handler calls rejectReceivePromises with it.
TransportReceiveFailed ==
    \E e \in ReadErrors :
        /\ physReads > 0
        /\ physReads' = physReads - 1
        /\ Transport_rejectReceivePromises(e)
        /\ UNCHANGED <<receivedDataSink_, tResolved, tNextId, tBatch, tStop, transportSend,
                       tStrand>>

\* The byte strings the clients send.
SendData == {<<1>>, <<2, 3>>}

\* A send that hands every new element to the subclass at once.
StartsPhysicalSend_Always(queue) == TRUE

\* The test of Transport::send after the push: sendQueue_.size() == 1
StartsPhysicalSend(queue) == Len(queue) = 1

\* The subclass's enqueueSend(sendQueue_.begin()) on a send queue: the
\* element whose physical write it starts, from its first byte.
Transport_enqueueSend(queue) ==
    [id |-> Head(queue).id, data |-> Head(queue).data, offset |-> 0]

\* The task Transport::send(data, promise) dispatches to sendStrand_.
Transport_send(data, promise) ==
    LET queue == Append(sendQueue_, [data |-> data, promise |-> promise,
                                     id |-> tSendCalls + 1])
        started == IF StartsPhysicalSend(queue) THEN <<Transport_enqueueSend(queue)>>
                   ELSE <<>>
    IN  /\ sendQueue_' = queue
        /\ physSends' = physSends \o started
        /\ tSendStarted' = tSendStarted \o started
        /\ tSendCalls' = tSendCalls + 1

\* A client calls send(data, promise).
TransportClientSend ==
    \E data \in SendData :
        /\ tSendCalls < MaxTransportSends
        /\ Transport_send(data, ClientPromise)
        /\ UNCHANGED <<tSendSettled, bulkOut>>

\* The subclass's send handler: the physical write of the element it was
\* handed completed (ok) or failed.  The element's promise is resolved or
\* rejected, the element is erased, and the next one, if any, is started.
Transport_sendHandler(ok) ==
    LET done == Head(physSends)
        queue == SelectSeq(sendQueue_, LAMBDA e : e.id /= done.id)
        started == IF queue /= <<>> THEN <<Transport_enqueueSend(queue)>> ELSE <<>>
    IN  /\ tSendSettled' = Append(tSendSettled,
                [id |-> done.id, kind |-> IF ok THEN "resolve" ELSE "reject"])
        /\ sendQueue_' = queue
        /\ physSends' = Tail(physSends) \o started
        /\ tSendStarted' = tSendStarted \o started

\* The physical write under way completes or fails.
TransportSendHandler ==
    \E ok \in BOOLEAN :
        /\ physSends /= <<>>
        /\ Transport_sendHandler(ok)
        /\ UNCHANGED <<tSendCalls, bulkOut>>

(***************************************************************************)
(* transport::USBTransport, the send side: enqueueSend, doSend and          *)
(* sendHandler over the bulk-OUT endpoint of the AOAP device.               *)
(***************************************************************************)
\* The byte strings the clients of the USBTransport send.
USBSendData == {<<1>>, <<2, 3, 4>>}

\* The bytes a bulk-OUT transfer of the element from its offset can report as
\* transferred: at least one, at most the endpoint's packet size, and no more
\* than the bytes that remain.
BulkOutTransferred(element) ==
    1..Min(MaxPacketSize, Len(element.data) - element.offset)

\* A send handler that resolves after the first transfer.
USBTransport_sendComplete_First(element, bytesTransferred) == TRUE

\* The test of sendHandler: no byte of the element is left to send.
USBTransport_sendComplete(element, bytesTransferred) ==
    ~(element.offset + bytesTransferred < Len(element.data))

\* USBTransport::doSend(queueElement, offset): the bulk-OUT transfer it starts.
USBTransport_doSend(element, offset) ==
    [id |-> element.id, data |-> element.data, offset |-> offset]

\* USBTransport::sendHandler(queueElement, offset, bytesTransferred): the
\* transfer under way completed with bytesTransferred bytes.  With bytes left
\* it sends the rest from the new offset; otherwise it resolves the
\* element's promise, erases the element and starts the next one, if any.
USBTransport_sendHandler(bytesTransferred) ==
    LET done == Head(physSends)
        complete == USBTransport_sendComplete(done, bytesTransferred)
        queue == IF complete THEN SelectSeq(sendQueue_, LAMBDA e : e.id /= done.id)
                 ELSE sendQueue_
        started == IF ~complete
                   THEN <<USBTransport_doSend(done, done.offset + bytesTransferred)>>
                   ELSE IF queue /= <<>> THEN <<USBTransport_doSend(Head(queue), 0)>>
                   ELSE <<>>
    IN  /\ tSendSettled' = IF complete
                           THEN Append(tSendSettled, [id |-> done.id, kind |-> "resolve"])
                           ELSE tSendSettled
        /\ sendQueue_' = queue
        /\ physSends' = Tail(physSends) \o started
        /\ tSendStarted' = tSendStarted \o started
        /\ bulkOut' = Append(bulkOut, [id |-> done.id, offset |-> done.offset,
                                       bytesTransferred |-> bytesTransferred])

\* The reject handler of doSend's endpoint promise: the transfer under way
\* failed.  The element's promise is rejected, the element is erased and the
\* next one, if any, is started.
USBTransport_sendRejected ==
    LET done == Head(physSends)
        queue == SelectSeq(sendQueue_, LAMBDA e : e.id /= done.id)
        started == IF queue /= <<>> THEN <<USBTransport_doSend(Head(queue), 0)>> ELSE <<>>
    IN  /\ tSendSettled' = Append(tSendSettled, [id |-> done.id, kind |-> "reject"])
        /\ sendQueue_' = queue
        /\ physSends' = Tail(physSends) \o started
        /\ tSendStarted' = tSendStarted \o started
        /\ UNCHANGED bulkOut

\* A client calls send(data, promise) on the USBTransport.
USBTransportClientSend ==
    \E data \in USBSendData :
        /\ tSendCalls < MaxUSBSends
        /\ Transport_send(data, ClientPromise)
        /\ UNCHANGED <<tSendSettled, bulkOut>>

\* The bulk-OUT transfer under way completes.
USBTransportSendHandler ==
    /\ physSends /= <<>>
    /\ \E bytesTransferred \in BulkOutTransferred(Head(physSends)) :
           USBTransport_sendHandler(bytesTransferred)
    /\ UNCHANGED tSendCalls

\* The bulk-OUT transfer under way fails.
USBTransportSendRejected ==
    /\ physSends /= <<>>
    /\ USBTransport_sendRejected
    /\ UNCHANGED tSendCalls

TransportInit ==
    /\ receiveQueue_ = <<>>
    /\ receivedDataSink_ = <<>>
    /\ physReads = 0
    /\ tStrand = <<>>
    /\ tResolved = <<>>
    /\ tNextId = 1
    /\ tBatch = 0
    /\ tStop = "running"
    /\ tRejected = <<>>
    /\ sendQueue_ = <<>>
    /\ physSends = <<>>
    /\ tSendCalls = 0
    /\ tSendStarted = <<>>
    /\ tSendSettled = <<>>
    /\ bulkOut = <<>>

\* The bytes of the link the physical reads have delivered so far.
Delivered == Take(wireAll, Len(wireAll) - Len(wire))

\* The byte slices handed to the resolved receive promises, in resolution order.
ResolvedData == [k \in 1..Len(tResolved) |-> tResolved[k].data]

C8_SinkKeepsBytes ==
    /\ Concat(ResolvedData) \o receivedDataSink_ = Delivered
    /\ IsPrefix(Concat(ResolvedData), wireAll)

\* One physical read resolved two queued requests and left surplus bytes in
\* the sink.
C8_Witness ==
    /\ tBatch >= 2
    /\ receivedDataSink_ /= <<>>
    /\ Len(Concat(ResolvedData)) >= 2

(***************************************************************************)
(* The wire format of a frame: FrameHeader (channel id, flags), FrameSize  *)
(* (the frame's payload length, and for a FIRST frame the total length of  *)
(* the message), then the payload.                                         *)
(***************************************************************************)
\* The channel ids of the model.
Channels == {1, 2, 3}

\* FrameHeader::getSizeOf()
FrameHeaderSize == 2

\* FrameSize::getSizeOf(FrameSizeType::SHORT)
FrameSizeShort == 2

\* FrameSize::getSizeOf(FrameSizeType::EXTENDED)
FrameSizeExtended == 6

\* The two FrameType bits of the flags byte.
FrameTypeCode(type) ==
    CASE type = "MIDDLE" -> 0 [] type = "FIRST" -> 1 [] type = "LAST" -> 2 [] type = "BULK" -> 3

\* FrameHeader(buffer): the header parsed from its two bytes.
FrameHeader(buffer) ==
    [channelId |-> buffer[1],
     type |-> CASE buffer[2] % 4 = 0 -> "MIDDLE" [] buffer[2] % 4 = 1 -> "FIRST"
                [] buffer[2] % 4 = 2 -> "LAST" [] buffer[2] % 4 = 3 -> "BULK",
     encryptionType |-> IF (buffer[2] \div 8) % 2 = 1 THEN "ENCRYPTED" ELSE "PLAIN",
     messageType |-> IF (buffer[2] \div 4) % 2 = 1 THEN "CONTROL" ELSE "SPECIFIC"]

\* FrameSize(buffer).getSize(): the big-endian length of the frame's payload.
FrameSize_getSize(buffer) == buffer[1] * 256 + buffer[2]

\* The bytes of a plain, service-specific frame f as the peer writes them.
EncodeFrame(f) ==
    <<f.channelId, FrameTypeCode(f.type)>>
    \o <<Len(f.payload) \div 256, Len(f.payload) % 256>>
    \o (IF f.type = "FIRST" THEN <<0, 0, f.total \div 256, f.total % 256>> ELSE <<>>)
    \o f.payload

\* Cryptor::encrypt on a payload: a ciphertext of the same length.
Cryptor_encrypt(plain) == [i \in 1..Len(plain) |-> (plain[i] + 128) % 256]

\* Cryptor::decrypt on the ciphertext of a frame, when it does not throw.
Cryptor_decrypt(cipher) == [i \in 1..Len(cipher) |-> (cipher[i] + 128) % 256]

\* The bytes of an encrypted, service-specific frame f as the peer writes them.
EncodeEncryptedFrame(f) ==
    <<f.channelId, FrameTypeCode(f.type) + 8>>
    \o <<Len(f.payload) \div 256, Len(f.payload) % 256>>
    \o (IF f.type = "FIRST" THEN <<0, 0, f.total \div 256, f.total % 256>> ELSE <<>>)
    \o Cryptor_encrypt(f.payload)

RECURSIVE EncodeEncryptedStream(_)
\* The bytes of a sequence of encrypted frames.
EncodeEncryptedStream(fs) ==
    IF fs = <<>> THEN <<>>
    ELSE EncodeEncryptedFrame(Head(fs)) \o EncodeEncryptedStream(Tail(fs))

RECURSIVE EncodeStream(_)
\* The bytes of a sequence of frames.
EncodeStream(fs) == IF fs = <<>> THEN <<>> ELSE EncodeFrame(Head(fs)) \o EncodeStream(Tail(fs))

\* The frames a peer may send next: `open` are the channels with a message
\* begun and not ended, `used` the number of channels that carried a frame
\* (channels are taken into use in increasing order).
NextFrames(open, used) ==
    {[channelId |-> c, type |-> t] :
        c \in {x \in Channels : x <= used + 1},
        t \in {"BULK", "FIRST", "MIDDLE", "LAST"}}
    \ ({[channelId |-> c, type |-> t] : c \in open, t \in {"BULK", "FIRST"}}
       \cup {[channelId |-> c, type |-> t] : c \in Channels \ open, t \in {"MIDDLE", "LAST"}})

RECURSIVE ValidStreams(_, _, _)
\* The valid interleavings of n frames of well-formed messages: per channel
\* BULK, or FIRST MIDDLE* LAST, at most one open message per channel.
ValidStreams(n, open, used) ==
    IF n = 0 THEN {<<>>}
    ELSE UNION {
            {<<f>> \o rest :
                rest \in ValidStreams(n - 1,
                            IF f.type = "FIRST" THEN open \cup {f.channelId}
                            ELSE IF f.type = "LAST" THEN open \ {f.channelId} ELSE open,
                            IF f.channelId > used THEN f.channelId ELSE used)} :
            f \in NextFrames(open, used)}

RECURSIVE AnyStreams(_, _)
\* The sequences of n frames of any type, well formed or not (channels are
\* taken into use in increasing order).
AnyStreams(n, used) ==
    IF n = 0 THEN {<<>>}
    ELSE UNION {
            {<<f>> \o rest :
                rest \in AnyStreams(n - 1, IF f.channelId > used THEN f.channelId ELSE used)} :
            f \in {[channelId |-> c, type |-> t] :
                      c \in {x \in Channels : x <= used + 1},
                      t \in {"BULK", "FIRST", "MIDDLE", "LAST"}}}

\* The payload of the k-th frame of a stream: one or two bytes that no other
\* frame carries.
PayloadOf(k) == IF k % 2 = 1 THEN <<100 + k>> ELSE <<100 + k, 200 + k>>

RECURSIVE TotalFrom(_, _, _)
\* The payload bytes of the message of channel c from frame k of fs to its end.
TotalFrom(fs, k, c) ==
    IF k > Len(fs) THEN 0
    ELSE IF fs[k].channelId /= c THEN TotalFrom(fs, k + 1, c)
    ELSE IF fs[k].type = "LAST" THEN Len(PayloadOf(k))
    ELSE Len(PayloadOf(k)) + TotalFrom(fs, k + 1, c)

\* The frames of a stream with their payloads and total lengths.
WithPayloads(fs) ==
    [k \in 1..Len(fs) |->
        [channelId |-> fs[k].channelId, type |-> fs[k].type, payload |-> PayloadOf(k),
         total |-> TotalFrom(fs, k, fs[k].channelId)]]

(***************************************************************************)
(* messenger::MessageInStream                                              *)
(***************************************************************************)
\* std::make_shared<Message>(channelId, encryptionType, messageType)
NewMessage(frameHeader) ==
    [channelId |-> frameHeader.channelId, encryptionType |-> frameHeader.encryptionType,
     messageType |-> frameHeader.messageType, payload |-> <<>>]

\* ReceivePromise::defer(strand_) with its handlers.
TransportPromise(resolveHandler, rejectHandler) ==
    Promise_then(Promise_defer("strand_"), resolveHandler, rejectHandler)

\* The tasks that resolve or reject posts to the Messenger's receiveStrand_.
PostsToReceiveStrand(p, posts, handler, arg) ==
    IF posts /\ p.executor = "receiveStrand_" THEN <<[handler |-> handler, arg |-> arg]>>
    ELSE <<>>

\* A startReceive that takes the new promise whatever promise_ holds.
MessageInStream_startReceive_Overwrite(promise) ==
    /\ promise_' = promise
    /\ isNewMessage_' = TRUE
    /\ tStrand' = Append(tStrand,
           [size |-> FrameHeaderSize,
            promise |-> TransportPromise("receiveFrameHeaderHandler", "rejectHeader")])
    /\ UNCHANGED <<rStrand, inProgress,
                   inRejected>>

\* The task MessageInStream::startReceive(promise) dispatches to strand_.
MessageInStream_startReceive(promise) ==
    IF promise_ = NullPtr
    THEN /\ promise_' = promise
         /\ isNewMessage_' = TRUE
         /\ tStrand' = Append(tStrand,
                [size |-> FrameHeaderSize,
                 promise |-> TransportPromise("receiveFrameHeaderHandler", "rejectHeader")])
         /\ UNCHANGED <<rStrand, inProgress,
                   inRejected>>
    ELSE /\ rStrand' = rStrand \o PostsToReceiveStrand(promise, Promise_rejectPosts(promise),
                                      promise.rejectHandler, "OPERATION_IN_PROGRESS")
         /\ inProgress' = inProgress + 1
         /\ UNCHANGED <<promise_, isNewMessage_, tStrand, inRejected>>

\* strand_ runs a startReceive the Messenger dispatched.
InStreamStartReceive ==
    /\ inStrand /= <<>>
    /\ Head(inStrand).handler = "startReceive"
    /\ MessageInStream_startReceive(Head(inStrand).arg)
    /\ inStrand' = Tail(inStrand)
    /\ UNCHANGED <<interleavedPromise_, isInterleaved_, originalMessageChannelId_, message_,
                   messageBuffer_, thisFrameType_, frameSize_, emitted, framesDone>>

\* A header handler that never suspends the current message.
ChannelMismatch_Never(frameHeader) == FALSE

\* Whether receiveFrameHeaderHandler suspends the current message: the frame
\* is of another channel.
ChannelMismatch(frameHeader) ==
    message_ /= NullPtr /\ message_.channelId /= frameHeader.channelId

\* A header handler that drops the current message instead of suspending it.
BufferAfterMismatch_Drop(frameHeader) == messageBuffer_

\* messageBuffer_ after the suspension of the current message, if any.
BufferAfterMismatch(frameHeader) ==
    IF ChannelMismatch(frameHeader)
    THEN [messageBuffer_ EXCEPT ![message_.channelId] = message_]
    ELSE messageBuffer_

\* A header handler that leaves the restored message in messageBuffer_.
BufferAfterRestore_Keep(buffered, frameHeader, found) == buffered

\* messageBuffer_ after the frame's message, if found there, was taken out:
\* messageBuffer_.erase(bufferedMessage).
BufferAfterRestore(buffered, frameHeader, found) ==
    IF found THEN [buffered EXCEPT ![frameHeader.channelId] = NullPtr] ELSE buffered

\* MessageInStream::receiveFrameHeaderHandler(buffer)
MessageInStream_receiveFrameHeaderHandler(buffer) ==
    LET frameHeader == FrameHeader(buffer)
        original == IF isNewMessage_ THEN frameHeader.channelId
                    ELSE originalMessageChannelId_
        mismatch == ChannelMismatch(frameHeader)
        buffered == BufferAfterMismatch(frameHeader)
        current == IF mismatch THEN NullPtr ELSE message_
        starts == frameHeader.type \in {"FIRST", "BULK"}
        found == ~starts /\ buffered[frameHeader.channelId] /= NullPtr
        restored == IF starts THEN NewMessage(frameHeader)
                    ELSE IF found THEN buffered[frameHeader.channelId]
                    ELSE current
    IN  /\ originalMessageChannelId_' = original
        /\ isNewMessage_' = FALSE
        /\ isInterleaved_' = IF found /\ original = frameHeader.channelId THEN FALSE
                             ELSE mismatch
        /\ messageBuffer_' = BufferAfterRestore(buffered, frameHeader, found)
        /\ message_' = IF restored = NullPtr THEN NewMessage(frameHeader) ELSE restored
        /\ thisFrameType_' = frameHeader.type
        /\ tStrand' = Append(tStrand,
                [size |-> IF frameHeader.type = "FIRST" THEN FrameSizeExtended
                          ELSE FrameSizeShort,
                 promise |-> TransportPromise("receiveFrameSizeHandler", "rejectFrame")])

\* strand_ runs receiveFrameHeaderHandler with the bytes the transport resolved.
InStreamHeader ==
    /\ inStrand /= <<>>
    /\ Head(inStrand).handler = "receiveFrameHeaderHandler"
    /\ MessageInStream_receiveFrameHeaderHandler(Head(inStrand).arg)
    /\ inStrand' = Tail(inStrand)
    /\ UNCHANGED <<promise_, interleavedPromise_, frameSize_, emitted, framesDone,
                   inProgress, inRejected, rStrand>>

\* strand_ runs MessageInStream::receiveFrameSizeHandler(buffer).
InStreamSize ==
    /\ inStrand /= <<>>
    /\ Head(inStrand).handler = "receiveFrameSizeHandler"
    /\ frameSize_' = FrameSize_getSize(Head(inStrand).arg)
    /\ tStrand' = Append(tStrand,
            [size |-> FrameSize_getSize(Head(inStrand).arg),
             promise |-> TransportPromise("receiveFramePayloadHandler", "rejectFrame")])
    /\ inStrand' = Tail(inStrand)
    /\ UNCHANGED <<promise_, interleavedPromise_, isNewMessage_, isInterleaved_,
                   originalMessageChannelId_, message_, messageBuffer_, thisFrameType_,
                   emitted, framesDone, inProgress, inRejected, rStrand>>

\* A payload handler that hands every finished message to the main promise.
ResolvesMain_Always == TRUE

\* Whether receiveFramePayloadHandler resolves the main promise with a
\* finished message (otherwise the interleaved promise).
ResolvesMain == ~isInterleaved_

\* What the payload handler appends to the message: the bytes cryptor_
\* decrypted for an ENCRYPTED message, the frame's bytes for a PLAIN one.
InsertedPayload(buffer) ==
    IF message_.encryptionType = "ENCRYPTED" THEN Cryptor_decrypt(buffer) ELSE buffer

\* Whether cryptor_->decrypt returns (TRUE) or throws (FALSE): either, for
\* the frame of an ENCRYPTED message; at most MaxDecryptFailures frames fail.
CryptorOutcomes ==
    IF message_.encryptionType = "ENCRYPTED" /\ Len(inRejected) < MaxDecryptFailures
    THEN BOOLEAN ELSE {TRUE}

\* The catch branch of receiveFramePayloadHandler: decrypt threw e.
MessageInStream_decryptFailed(e) ==
    /\ message_' = NullPtr
    /\ rStrand' = rStrand \o PostsToReceiveStrand(promise_, Promise_rejectPosts(promise_),
                                  promise_.rejectHandler, e)
    /\ inRejected' = Append(inRejected, e)
    /\ promise_' = NullPtr
    /\ framesDone' = framesDone + 1
    /\ UNCHANGED <<interleavedPromise_, emitted, tStrand>>

\* MessageInStream::receiveFramePayloadHandler(buffer) when decrypt, if
\* called, does not throw.
MessageInStream_receiveFramePayloadHandler(buffer) ==
    LET message == [message_ EXCEPT !.payload = @ \o InsertedPayload(buffer)]
        final == thisFrameType_ \in {"BULK", "LAST"}
        isResolved == final /\ ResolvesMain
        target == IF isResolved THEN promise_ ELSE interleavedPromise_
    IN  /\ message_' = IF final THEN NullPtr ELSE message
        /\ promise_' = IF isResolved THEN NullPtr ELSE promise_
        /\ interleavedPromise_' = IF final /\ ~isResolved
                                  THEN Promise_resolve(interleavedPromise_)
                                  ELSE interleavedPromise_
        /\ emitted' = IF final
                      THEN Append(emitted,
                               [via |-> IF isResolved THEN "main" ELSE "interleaved",
                                message |-> message,
                                posts |-> Promise_resolvePosts(target)])
                      ELSE emitted
        /\ rStrand' = IF final
                      THEN rStrand \o PostsToReceiveStrand(target, Promise_resolvePosts(target),
                                          target.resolveHandler, message)
                      ELSE rStrand
        /\ tStrand' = IF isResolved THEN tStrand
                      ELSE Append(tStrand,
                               [size |-> FrameHeaderSize,
                                promise |-> TransportPromise("receiveFrameHeaderHandler",
                                                             "rejectFrame")])
        /\ framesDone' = framesDone + 1

\* strand_ runs receiveFramePayloadHandler with the bytes the transport resolved.
InStreamPayload ==
    /\ inStrand /= <<>>
    /\ Head(inStrand).handler = "receiveFramePayloadHandler"
    /\ \E ok \in CryptorOutcomes :
           IF ok
           THEN /\ MessageInStream_receiveFramePayloadHandler(Head(inStrand).arg)
                /\ UNCHANGED inRejected
           ELSE MessageInStream_decryptFailed("SSL_READ")
    /\ inStrand' = Tail(inStrand)
    /\ UNCHANGED <<isNewMessage_, isInterleaved_, originalMessageChannelId_, messageBuffer_,
                   thisFrameType_, frameSize_, inProgress>>

\* The reject handler of a transport promise of the stream, run with error
\* e: the handler of startReceive rejects and resets promise_, those of the
\* frame handlers first drop the message being assembled.
MessageInStream_rejectHandler(handler, e) ==
    /\ message_' = IF handler = "rejectFrame" THEN NullPtr ELSE message_
    /\ rStrand' = rStrand \o PostsToReceiveStrand(promise_, Promise_rejectPosts(promise_),
                                  promise_.rejectHandler, e)
    /\ inRejected' = Append(inRejected, e)
    /\ promise_' = NullPtr

\* strand_ runs the reject handler of the transport promise under way.
InStreamReject ==
    /\ inStrand /= <<>>
    /\ Head(inStrand).handler \in {"rejectHeader", "rejectFrame"}
    /\ MessageInStream_rejectHandler(Head(inStrand).handler, Head(inStrand).arg)
    /\ inStrand' = Tail(inStrand)
    /\ UNCHANGED <<interleavedPromise_, isNewMessage_, isInterleaved_,
                   originalMessageChannelId_, messageBuffer_, thisFrameType_, frameSize_,
                   emitted, framesDone, inProgress, tStrand>>

\* The stream after its constructor, which sets isNewMessage_ alone; the
\* members it leaves unset are all written by a handler before one reads them.
InStreamInit ==
    /\ inStrand = <<>>
    /\ promise_ = NullPtr
    /\ interleavedPromise_ = NullPtr
    /\ isNewMessage_ = TRUE
    /\ isInterleaved_ = FALSE
    /\ originalMessageChannelId_ = 0
    /\ message_ = NullPtr
    /\ messageBuffer_ = [c \in Channels |-> NullPtr]
    /\ thisFrameType_ = Null
    /\ frameSize_ = 0
    /\ emitted = <<>>
    /\ framesDone = 0
    /\ inProgress = 0
    /\ inRejected = <<>>

(***************************************************************************)
(* A consumer of the MessageInStream outside the model: it installs the    *)
(* interleaved promise and calls startReceive whenever it likes.           *)
(***************************************************************************)
ConsumerPromise == Promise_then(Promise_defer("ioService"), "onMessage", "onError")

\* setInterleavedHandler(promise), once the promise installed before is settled.
ConsumerSetInterleavedHandler ==
    /\ IF interleavedPromise_ = NullPtr THEN TRUE ELSE ~isPending(interleavedPromise_)
    /\ interleavedPromise_' = ConsumerPromise
    /\ UNCHANGED <<inStrand, promise_, isNewMessage_, isInterleaved_,
                   originalMessageChannelId_, message_, messageBuffer_, thisFrameType_,
                   frameSize_, emitted, framesDone, inProgress,
                   inRejected>>

\* startReceive(promise), after the interleaved promise was installed.
ConsumerStartReceive ==
    /\ interleavedPromise_ /= NullPtr
    /\ IF promise_ = NullPtr THEN TRUE ELSE inProgress < MaxInProgress
    /\ MessageInStream_startReceive(ConsumerPromise)
    /\ UNCHANGED <<inStrand, interleavedPromise_, isInterleaved_, originalMessageChannelId_,
                   message_, messageBuffer_, thisFrameType_, frameSize_, emitted, framesDone>>

(***************************************************************************)
(* messenger::Messenger.  Its two queues are ChannelReceivePromiseQueue    *)
(* (channel -> FIFO of waiting promises) and ChannelReceiveMessageQueue    *)
(* (channel -> FIFO of held messages).                                     *)
(***************************************************************************)
\* ChannelReceivePromiseQueue::push(channelId, promise)
ChannelReceivePromiseQueue_push(queue, channelId, entry) ==
    [queue EXCEPT ![channelId] = Append(@, entry)]

RECURSIVE PendingIn(_, _)
\* The number of promises that queue holds for the channels cs.
PendingIn(queue, cs) ==
    IF cs = {} THEN 0
    ELSE LET c == CHOOSE x \in cs : TRUE
         IN  Len(queue[c]) + PendingIn(queue, cs \ {c})

\* ChannelReceivePromiseQueue::size(): the promises pending across all channels.
ChannelReceivePromiseQueue_size(queue) == PendingIn(queue, Channels)

\* ChannelReceivePromiseQueue::empty()
ChannelReceivePromiseQueue_empty(queue) == \A c \in Channels : queue[c] = <<>>

\* ChannelReceivePromiseQueue::isPending(channelId)
ChannelReceivePromiseQueue_isPending(queue, channelId) == queue[channelId] /= <<>>

\* ChannelReceivePromiseQueue::pop(channelId): the queue without its oldest
\* promise of the channel.
ChannelReceivePromiseQueue_pop(queue, channelId) == [queue EXCEPT ![channelId] = Tail(@)]

\* ChannelReceiveMessageQueue::push(message): under the message's channel.
ChannelReceiveMessageQueue_push(queue, message) ==
    [queue EXCEPT ![message.channelId] = Append(@, message)]

\* ChannelReceiveMessageQueue::pop(channelId): the queue without the oldest
\* message of the channel.
ChannelReceiveMessageQueue_pop(queue, channelId) == [queue EXCEPT ![channelId] = Tail(@)]

\* ChannelReceiveMessageQueue::clear()
ChannelReceiveMessageQueue_clear == [c \in Channels |-> <<>>]

\* The promise a service channel passes to enqueueReceive or enqueueSend.
CallerPromise == Promise_then(Promise_defer("channelStrand"), "onMessage", "onError")

\* The interleaved promise of enqueueReceive and interleavedMessageHandler.
InterleavedPromise ==
    Promise_then(Promise_defer("receiveStrand_"), "interleavedMessageHandler",
                 "rejectInterleavedMessageHandler")

\* The promise the Messenger passes to MessageInStream::startReceive.
InStreamPromise ==
    Promise_then(Promise_defer("receiveStrand_"), "inStreamMessageHandler",
                 "rejectReceivePromiseQueue")

\* The promise doSend passes to MessageOutStream::stream.
OutStreamPromise ==
    Promise_then(Promise_defer("sendStrand_"), "outStreamMessageHandler",
                 "rejectSendPromiseQueue")

\* The record of a resolve or reject of the caller's promise of entry e.
Settled(e, kind, value, sync) ==
    [id |-> e.id, channelId |-> e.channelId, kind |-> kind, value |-> value, sync |-> sync,
     afterStop |-> e.afterStop,
     posts |-> IF kind = "resolve" THEN Promise_resolvePosts(e.promise)
               ELSE Promise_rejectPosts(e.promise)]

\* An enqueueReceive that never looks into the holding queue.
HoldsMessage_Never(channelId) == FALSE

\* The test of enqueueReceive: !channelReceiveMessageQueue_.empty(channelId)
HoldsMessage(channelId) == channelReceiveMessageQueue_[channelId] /= <<>>

\* An enqueueReceive that calls startReceive for every promise it pushes.
StartsReceive_Always(queue) == TRUE

\* The test of enqueueReceive after the push: channelReceivePromiseQueue_.size() == 1
StartsReceive(queue) == ChannelReceivePromiseQueue_size(queue) = 1

\* The task Messenger::enqueueReceive(channelId, promise) dispatches to
\* receiveStrand_; e is the promise with the number of the call.
Messenger_enqueueReceive(channelId, e) ==
    /\ interleavedPromise_' = InterleavedPromise
    /\ IF HoldsMessage(channelId)
       THEN /\ delivered' = Append(delivered,
                   Settled(e, "resolve", Head(channelReceiveMessageQueue_[channelId]), TRUE))
            /\ channelReceiveMessageQueue_' =
                   ChannelReceiveMessageQueue_pop(channelReceiveMessageQueue_, channelId)
            /\ UNCHANGED <<channelReceivePromiseQueue_, currentPromiseIndex_,
                           currentMessageIndex_, inStrand>>
       ELSE LET pushed == ChannelReceivePromiseQueue_push(channelReceivePromiseQueue_,
                              channelId, e)
                starts == StartsReceive(pushed)
            IN  /\ currentPromiseIndex_' = currentPromiseIndex_ + 1
                /\ channelReceivePromiseQueue_' = pushed
                /\ currentMessageIndex_' = currentMessageIndex_ + (IF starts THEN 1 ELSE 0)
                /\ inStrand' = IF starts
                               THEN Append(inStrand, [handler |-> "startReceive",
                                                      arg |-> InStreamPromise])
                               ELSE inStrand
                /\ UNCHANGED <<delivered, channelReceiveMessageQueue_>>

\* A service channel calls enqueueReceive(channelId, promise).
MessengerEnqueueReceive ==
    \E channelId \in Channels :
        /\ Len(enqLog) < MaxReceives
        /\ Messenger_enqueueReceive(channelId,
               [promise |-> CallerPromise, id |-> Len(enqLog) + 1, channelId |-> channelId,
                afterStop |-> mStop = "stopped" /\ rStrand = <<>>])
        /\ enqLog' = Append(enqLog, [channelId |-> channelId, framesDone |-> framesDone])
        /\ UNCHANGED <<inStreamOwn, tStrand, rStrand>>

\* Messenger::inStreamMessageHandler(message)
Messenger_inStreamMessageHandler(message) ==
    LET channelId == message.channelId
        pending == ChannelReceivePromiseQueue_isPending(channelReceivePromiseQueue_, channelId)
        queue == IF pending
                 THEN ChannelReceivePromiseQueue_pop(channelReceivePromiseQueue_, channelId)
                 ELSE channelReceivePromiseQueue_
        starts == ~ChannelReceivePromiseQueue_empty(queue)
    IN  /\ channelReceivePromiseQueue_' = queue
        /\ delivered' = IF pending
                        THEN Append(delivered,
                                 Settled(Head(channelReceivePromiseQueue_[channelId]),
                                         "resolve", message, FALSE))
                        ELSE delivered
        /\ currentPromiseIndex_' = currentPromiseIndex_ - (IF pending THEN 1 ELSE 0)
        /\ channelReceiveMessageQueue_' =
               IF pending THEN channelReceiveMessageQueue_
               ELSE ChannelReceiveMessageQueue_push(channelReceiveMessageQueue_, message)
        /\ currentMessageIndex_' = currentMessageIndex_ - 1 + (IF starts THEN 1 ELSE 0)
        /\ inStrand' = IF starts
                       THEN Append(inStrand, [handler |-> "startReceive",
                                              arg |-> InStreamPromise])
                       ELSE inStrand

\* receiveStrand_ runs inStreamMessageHandler with the message the stream
\* resolved the main promise with.
MessengerInStreamMessage ==
    /\ rStrand /= <<>>
    /\ Head(rStrand).handler = "inStreamMessageHandler"
    /\ Messenger_inStreamMessageHandler(Head(rStrand).arg)
    /\ rStrand' = Tail(rStrand)
    /\ UNCHANGED <<inStreamState, tStrand, enqLog>>

\* receiveStrand_ runs Messenger::interleavedMessageHandler(message).
MessengerInterleavedMessage ==
    /\ rStrand /= <<>>
    /\ Head(rStrand).handler = "interleavedMessageHandler"
    /\ channelReceiveMessageQueue_' =
           ChannelReceiveMessageQueue_push(channelReceiveMessageQueue_, Head(rStrand).arg)
    /\ interleavedPromise_' = InterleavedPromise
    /\ rStrand' = Tail(rStrand)
    /\ UNCHANGED <<inStreamOwn, tStrand, inStrand, channelReceivePromiseQueue_,
                   currentPromiseIndex_, currentMessageIndex_, enqLog, delivered>>

\* ChannelReceivePromiseQueue::pop(): the channel whose oldest promise it
\* returns, the lowest one that has a promise.
ChannelReceivePromiseQueue_popChannel(queue) ==
    CHOOSE c \in Channels : queue[c] /= <<>> /\ \A d \in Channels : d < c => queue[d] = <<>>

RECURSIVE RejectedInTurn(_, _)
\* The rejections of the loop of rejectReceivePromiseQueue(e) on a queue.
RejectedInTurn(queue, e) ==
    IF ChannelReceivePromiseQueue_empty(queue) THEN <<>>
    ELSE LET c == ChannelReceivePromiseQueue_popChannel(queue)
         IN  <<Settled(Head(queue[c]), "reject", e, FALSE)>>
             \o RejectedInTurn(ChannelReceivePromiseQueue_pop(queue, c), e)

\* A rejection that rejects the promises of one channel only.
Messenger_rejectReceivePromiseQueue_OneChannel(e) ==
    IF ChannelReceivePromiseQueue_empty(channelReceivePromiseQueue_)
    THEN UNCHANGED <<delivered, currentPromiseIndex_, channelReceivePromiseQueue_>>
    ELSE LET c == ChannelReceivePromiseQueue_popChannel(channelReceivePromiseQueue_)
             only == [d \in Channels |->
                         IF d = c THEN channelReceivePromiseQueue_[d] ELSE <<>>]
         IN  /\ delivered' = delivered \o RejectedInTurn(only, e)
             /\ currentPromiseIndex_' = currentPromiseIndex_ - Len(RejectedInTurn(only, e))
             /\ channelReceivePromiseQueue_' =
                    [channelReceivePromiseQueue_ EXCEPT ![c] = <<>>]

\* Messenger::rejectReceivePromiseQueue(e)
Messenger_rejectReceivePromiseQueue(e) ==
    LET rejected == RejectedInTurn(channelReceivePromiseQueue_, e)
    IN  /\ delivered' = delivered \o rejected
        /\ currentPromiseIndex_' = currentPromiseIndex_ - Len(rejected)
        /\ channelReceivePromiseQueue_' = [c \in Channels |-> <<>>]

\* receiveStrand_ runs rejectReceivePromiseQueue with the error the stream
\* rejected the main promise with.
MessengerRejectReceivePromiseQueue ==
    /\ rStrand /= <<>>
    /\ Head(rStrand).handler = "rejectReceivePromiseQueue"
    /\ Messenger_rejectReceivePromiseQueue(Head(rStrand).arg)
    /\ rStrand' = Tail(rStrand)
    /\ UNCHANGED <<inStreamState, tStrand, inStrand, channelReceiveMessageQueue_,
                   currentMessageIndex_, enqLog>>

\* Messenger::doSend on a send queue: what the MessageOutStream is handed.
Messenger_doSend(queue) ==
    [id |-> Head(queue).id, afterStop |-> Head(queue).afterStop, promise |-> OutStreamPromise]

\* An enqueueSend that calls doSend whatever the queue holds.
StartsSend_Always(queue) == TRUE

\* The test of enqueueSend: channelSendPromiseQueue_.size() == 1
StartsSend(queue) == Len(queue) = 1

\* The task Messenger::enqueueSend(message, promise) dispatches to sendStrand_.
Messenger_enqueueSend(e) ==
    LET queue == Append(channelSendPromiseQueue_, e)
    IN  /\ channelSendPromiseQueue_' = queue
        /\ outStream' = IF StartsSend(queue) THEN Append(outStream, Messenger_doSend(queue))
                        ELSE outStream
        /\ streamed' = IF StartsSend(queue) THEN Append(streamed, Messenger_doSend(queue))
                       ELSE streamed

\* A service channel calls enqueueSend(message, promise).
MessengerEnqueueSend ==
    /\ sendLog < MaxSends
    /\ Messenger_enqueueSend([promise |-> CallerPromise, id |-> sendLog + 1, channelId |-> 0,
                              afterStop |-> mStop = "stopped" /\ sStrand = <<>>])
    /\ sendLog' = sendLog + 1
    /\ UNCHANGED <<sStrand, sendSettled, outSettled>>

\* The MessageOutStream wrote the last frame of the message it was handed,
\* and resolves the promise of stream().
OutStreamWritten ==
    /\ outStream /= <<>>
    /\ sStrand' = sStrand \o
           (IF Promise_resolvePosts(Head(outStream).promise)
            THEN <<[handler |-> Head(outStream).promise.resolveHandler, arg |-> Null]>>
            ELSE <<>>)
    /\ outStream' = Tail(outStream)
    /\ outSettled' = Append(outSettled, [id |-> Head(outStream).id, kind |-> "resolve"])
    /\ UNCHANGED <<channelSendPromiseQueue_, sendLog, streamed, sendSettled>>

\* A write of the MessageOutStream failed, and it rejects the promise of stream().
OutStreamFailed ==
    /\ outStream /= <<>>
    /\ sStrand' = sStrand \o
           (IF Promise_rejectPosts(Head(outStream).promise)
            THEN <<[handler |-> Head(outStream).promise.rejectHandler, arg |-> "writeError"]>>
            ELSE <<>>)
    /\ outStream' = Tail(outStream)
    /\ outSettled' = Append(outSettled, [id |-> Head(outStream).id, kind |-> "reject"])
    /\ UNCHANGED <<channelSendPromiseQueue_, sendLog, streamed, sendSettled>>

\* sendStrand_ runs Messenger::outStreamMessageHandler(queueElement); the
\* element is the one doSend took, the front of the queue.
MessengerOutStreamMessage ==
    /\ sStrand /= <<>>
    /\ Head(sStrand).handler = "outStreamMessageHandler"
    /\ LET queue == Tail(channelSendPromiseQueue_)
       IN  /\ sendSettled' = Append(sendSettled,
                   Settled(Head(channelSendPromiseQueue_), "resolve", Null, FALSE))
           /\ channelSendPromiseQueue_' = queue
           /\ outStream' = IF queue /= <<>> THEN Append(outStream, Messenger_doSend(queue))
                           ELSE outStream
           /\ streamed' = IF queue /= <<>> THEN Append(streamed, Messenger_doSend(queue))
                          ELSE streamed
    /\ sStrand' = Tail(sStrand)
    /\ UNCHANGED <<sendLog, outSettled>>

\* A rejectSendPromiseQueue that rejects and pops the front element only.
MessengerRejectSendPromiseQueue_FrontOnly ==
    /\ sStrand /= <<>>
    /\ Head(sStrand).handler = "rejectSendPromiseQueue"
    /\ sendSettled' = sendSettled \o
           [k \in 1..Min(1, Len(channelSendPromiseQueue_)) |->
               Settled(channelSendPromiseQueue_[k], "reject", Head(sStrand).arg, FALSE)]
    /\ channelSendPromiseQueue_' = Drop(channelSendPromiseQueue_, 1)
    /\ sStrand' = Tail(sStrand)
    /\ UNCHANGED <<outStream, sendLog, streamed, outSettled>>

\* sendStrand_ runs Messenger::rejectSendPromiseQueue(e).
MessengerRejectSendPromiseQueue ==
    /\ sStrand /= <<>>
    /\ Head(sStrand).handler = "rejectSendPromiseQueue"
    /\ sendSettled' = sendSettled \o
           [k \in 1..Len(channelSendPromiseQueue_) |->
               Settled(channelSendPromiseQueue_[k], "reject", Head(sStrand).arg, FALSE)]
    /\ channelSendPromiseQueue_' = <<>>
    /\ sStrand' = Tail(sStrand)
    /\ UNCHANGED <<outStream, sendLog, streamed, outSettled>>

\* Messenger::stop(): the counter is reset by the caller, the holding queues
\* are cleared by a task dispatched to receiveStrand_.
MessengerStop ==
    /\ mStop = "running"
    /\ currentPromiseIndex_' = 0
    /\ rStrand' = Append(rStrand, [handler |-> "stop", arg |-> Null])
    /\ mStop' = "stopping"
    /\ UNCHANGED <<channelReceivePromiseQueue_, channelReceiveMessageQueue_,
                   currentMessageIndex_, enqLog, delivered>>

\* receiveStrand_ runs the task of stop().
MessengerStopTask ==
    /\ rStrand /= <<>>
    /\ Head(rStrand).handler = "stop"
    /\ channelReceiveMessageQueue_' = ChannelReceiveMessageQueue_clear
    /\ rStrand' = Tail(rStrand)
    /\ mStop' = "stopped"
    /\ UNCHANGED <<channelReceivePromiseQueue_, currentPromiseIndex_, currentMessageIndex_,
                   enqLog, delivered>>

MessengerInit ==
    /\ rStrand = <<>>
    /\ sStrand = <<>>
    /\ channelReceivePromiseQueue_ = [c \in Channels |-> <<>>]
    /\ channelReceiveMessageQueue_ = [c \in Channels |-> <<>>]
    /\ channelSendPromiseQueue_ = <<>>
    /\ currentPromiseIndex_ = 0
    /\ currentMessageIndex_ = 0
    /\ outStream = <<>>
    /\ enqLog = <<>>
    /\ delivered = <<>>
    /\ sendLog = 0
    /\ streamed = <<>>
    /\ sendSettled = <<>>
    /\ outSettled = <<>>
    /\ mStop = "running"

(***************************************************************************)
(* error::Error(code, nativeCode): the native code is a uint32_t.          *)
(***************************************************************************)
\* The conversion of an int to uint32_t (modulo 2^32), as its two 16-bit
\* halves.
Uint32(n) == [hi |-> (n \div 65536) % 65536, lo |-> n % 65536]

\* error::Error(code, nativeCode)
Error(code, nativeCode) == [code |-> code, nativeCode |-> Uint32(nativeCode)]

\* error::Error(code): the native code defaults to 0.
ErrorOf(code) == Error(code, 0)

(***************************************************************************)
(* usb::USBEndpoint.  libusb is the environment: it accepts or refuses a   *)
(* submitted transfer and later calls transferHandler with the transfer's  *)
(* status.  A transfer and the promise of its request carry the number of  *)
(* the request.                                                            *)
(***************************************************************************)
\* libusb_error::LIBUSB_SUCCESS
LIBUSB_SUCCESS == 0
\* libusb_transfer_status::LIBUSB_TRANSFER_COMPLETED
LIBUSB_TRANSFER_COMPLETED == 0
\* libusb_transfer_status::LIBUSB_TRANSFER_CANCELLED
LIBUSB_TRANSFER_CANCELLED == 3

\* The results of libusb_submit_transfer: success, LIBUSB_ERROR_IO,
\* LIBUSB_ERROR_NO_DEVICE.
SubmitResults == {LIBUSB_SUCCESS, -1, -4}

\* The statuses of a completed transfer: completed, error, cancelled, no device.
TransferStatuses == {LIBUSB_TRANSFER_COMPLETED, 1, LIBUSB_TRANSFER_CANCELLED, 5}

\* transfer->actual_length of a completed transfer.
ActualLengths == {0, 2}

TransferMethods == {"control", "interrupt", "bulk"}

\* The endpoint addresses: the control endpoint and a bulk endpoint.
EndpointAddresses == {0, 1}

\* The first test of controlTransfer, interruptTransfer and bulkTransfer:
\* control transfers go to endpoint 0 only, the others never to endpoint 0.
USBEndpoint_invalidTransferMethod(method, address) ==
    IF method = "control" THEN address /= 0 ELSE address = 0

\* An error mapping that reports a cancelled transfer as any other failure.
USBEndpoint_transferError_NoAbort(status) == Error("USB_TRANSFER", status)

\* The error transferHandler rejects with for a status other than completed.
USBEndpoint_transferError(status) ==
    IF status = LIBUSB_TRANSFER_CANCELLED
    THEN ErrorOf("OPERATION_ABORTED")
    ELSE Error("USB_TRANSFER", status)

\* The promise that transfers_ holds for transfer t.
USBEndpoint_promiseOf(t) == (CHOOSE e \in transfers_ : e.transfer = t).promise

\* transfers_.count(transfer) /= 0
USBEndpoint_holds(transfers, t) == \E e \in transfers : e.transfer = t

\* USBEndpoint::transfer, the task on strand_: the transfer is submitted;
\* accepted, it is kept with its promise, refused, the promise is rejected
\* and the transfer freed.
USBEndpoint_transfer(t, promise, submitResult) ==
    IF submitResult = LIBUSB_SUCCESS
    THEN /\ endpointSelf_' = TRUE
         /\ transfers_' = transfers_ \cup {[transfer |-> t, promise |-> promise]}
         /\ usbSubmitted' = usbSubmitted \cup {t}
         /\ UNCHANGED <<usbFreed, epSettled>>
    ELSE /\ epSettled' = Append(epSettled, [promise |-> promise, kind |-> "reject",
                                           arg |-> Error("USB_TRANSFER", submitResult)])
         /\ usbFreed' = usbFreed \cup {t}
         /\ UNCHANGED <<endpointSelf_, transfers_, usbSubmitted>>

\* controlTransfer, interruptTransfer or bulkTransfer called by a client:
\* alloc is whether allocTransfer returns a transfer.
USBEndpointRequest ==
    \E method \in TransferMethods, alloc \in BOOLEAN, submitResult \in SubmitResults :
        /\ epRequests < MaxTransfers
        /\ epRequests' = epRequests + 1
        /\ epLast' = [method |-> method, alloc |-> alloc, submitResult |-> submitResult]
        /\ IF USBEndpoint_invalidTransferMethod(method, endpointAddress_)
           THEN /\ epSettled' = Append(epSettled,
                      [promise |-> epRequests + 1, kind |-> "reject",
                       arg |-> ErrorOf("USB_INVALID_TRANSFER_METHOD")])
                /\ UNCHANGED <<endpointSelf_, transfers_, usbSubmitted, usbFreed>>
           ELSE IF ~alloc
                THEN /\ epSettled' = Append(epSettled,
                           [promise |-> epRequests + 1, kind |-> "reject",
                            arg |-> ErrorOf("USB_TRANSFER_ALLOCATION")])
                     /\ UNCHANGED <<endpointSelf_, transfers_, usbSubmitted, usbFreed>>
                ELSE USBEndpoint_transfer(epRequests + 1, epRequests + 1, submitResult)
        /\ UNCHANGED <<endpointAddress_, usbCancelled, epCallback, epStray>>

\* USBEndpoint::cancelTransfers: cancelTransfer on every transfer held.
USBEndpoint_cancelTransfers ==
    /\ usbCancelled' = usbCancelled \cup {e.transfer : e \in transfers_}
    /\ UNCHANGED <<endpointAddress_, endpointSelf_, transfers_, usbSubmitted, usbFreed,
                   epRequests, epLast, epSettled, epCallback, epStray>>

\* A handler that settles the promise and keeps the transfer in transfers_.
USBEndpoint_transferHandler_NoErase(t, status, actual_length) ==
    IF ~USBEndpoint_holds(transfers_, t)
    THEN UNCHANGED <<epSettled, usbFreed, transfers_, endpointSelf_>>
    ELSE /\ epSettled' = Append(epSettled,
               IF status = LIBUSB_TRANSFER_COMPLETED
               THEN [promise |-> USBEndpoint_promiseOf(t), kind |-> "resolve",
                     arg |-> [actual_length |-> actual_length]]
               ELSE [promise |-> USBEndpoint_promiseOf(t), kind |-> "reject",
                     arg |-> USBEndpoint_transferError(status)])
         /\ usbFreed' = usbFreed \cup {t}
         /\ UNCHANGED <<transfers_, endpointSelf_>>

\* A handler that keeps self_ after the last transfer has left transfers_.
USBEndpoint_transferHandler_KeepsSelf(t, status, actual_length) ==
    IF ~USBEndpoint_holds(transfers_, t)
    THEN UNCHANGED <<epSettled, usbFreed, transfers_, endpointSelf_>>
    ELSE /\ epSettled' = Append(epSettled,
               IF status = LIBUSB_TRANSFER_COMPLETED
               THEN [promise |-> USBEndpoint_promiseOf(t), kind |-> "resolve",
                     arg |-> [actual_length |-> actual_length]]
               ELSE [promise |-> USBEndpoint_promiseOf(t), kind |-> "reject",
                     arg |-> USBEndpoint_transferError(status)])
         /\ usbFreed' = usbFreed \cup {t}
         /\ transfers_' = {e \in transfers_ : e.transfer /= t}
         /\ UNCHANGED endpointSelf_

\* USBEndpoint::transferHandler, the task on strand_, for transfer t that
\* ended with status and actual_length.
USBEndpoint_transferHandler(t, status, actual_length) ==
    IF ~USBEndpoint_holds(transfers_, t)
    THEN UNCHANGED <<epSettled, usbFreed, transfers_, endpointSelf_>>
    ELSE LET promise == USBEndpoint_promiseOf(t)
             left == {e \in transfers_ : e.transfer /= t}
         IN  /\ epSettled' = Append(epSettled,
                   IF status = LIBUSB_TRANSFER_COMPLETED
                   THEN [promise |-> promise, kind |-> "resolve",
                         arg |-> [actual_length |-> actual_length]]
                   ELSE [promise |-> promise, kind |-> "reject",
                         arg |-> USBEndpoint_transferError(status)])
             /\ usbFreed' = usbFreed \cup {t}
             /\ transfers_' = left
             /\ endpointSelf_' = IF left = {} THEN FALSE ELSE endpointSelf_

\* libusb completes a submitted transfer: only a transfer that cancelTransfer
\* was called on can end as cancelled.
USBEndpointTransferHandler ==
    \E t \in usbSubmitted, status \in TransferStatuses, actual_length \in ActualLengths :
        /\ status = LIBUSB_TRANSFER_CANCELLED => t \in usbCancelled
        /\ status /= LIBUSB_TRANSFER_COMPLETED => actual_length = 0
        /\ usbSubmitted' = usbSubmitted \ {t}
        /\ epCallback' = [transfer |-> t, status |-> status,
                          actual_length |-> actual_length]
        /\ USBEndpoint_transferHandler(t, status, actual_length)
        /\ UNCHANGED <<endpointAddress_, usbCancelled, epRequests, epLast, epStray>>

\* A completion callback for a transfer the endpoint holds no more (it was
\* completed before): libusb makes no such call, the handler guards it.
USBEndpointStrayTransferHandler ==
    \E t \in 1..epRequests, status \in TransferStatuses :
        /\ t \notin usbSubmitted
        /\ epStray < MaxStrayCallbacks
        /\ epStray' = epStray + 1
        /\ epCallback' = [transfer |-> t, status |-> status, actual_length |-> 0]
        /\ USBEndpoint_transferHandler(t, status, 0)
        /\ UNCHANGED <<endpointAddress_, usbSubmitted, usbCancelled, epRequests, epLast>>

USBEndpointInit(address) ==
    /\ endpointAddress_ = address
    /\ endpointSelf_ = FALSE
    /\ transfers_ = {}
    /\ usbSubmitted = {}
    /\ usbCancelled = {}
    /\ usbFreed = {}
    /\ epRequests = 0
    /\ epLast = [method |-> Null, alloc |-> FALSE, submitResult |-> LIBUSB_SUCCESS]
    /\ epSettled = <<>>
    /\ epCallback = [transfer |-> 0, status |-> LIBUSB_TRANSFER_COMPLETED, actual_length |-> 0]
    /\ epStray = 0

(***************************************************************************)
(* tcp::TCPEndpoint.  The socket is the environment: it completes an       *)
(* asynchronous read or write with an error code and a number of bytes.    *)
(***************************************************************************)
\* boost::asio::error::operation_aborted (ECANCELED)
operation_aborted == 125

\* The error codes of a completed operation: none, operation_aborted,
\* connection reset, bad descriptor.
ErrorCodes == {0, operation_aborted, 104, 9}

\* An error mapping that reports an aborted operation as any other failure.
TCPEndpoint_operationError_NoAbort(ec) == Error("TCP_TRANSFER", ec)

\* The error asyncOperationHandler rejects with for a non-zero error code.
TCPEndpoint_operationError(ec) ==
    IF ec = operation_aborted
    THEN ErrorOf("OPERATION_ABORTED")
    ELSE Error("TCP_TRANSFER", ec)

\* TCPEndpoint::send or TCPEndpoint::receive: an asynchronous write or read
\* is started with the promise bound to its handler.
TCPEndpointOperation ==
    \E kind \in {"send", "receive"} :
        /\ tcpRequests < MaxTcpOperations
        /\ tcpRequests' = tcpRequests + 1
        /\ tcpOperations' = tcpOperations \cup {[promise |-> tcpRequests + 1, kind |-> kind,
                                                  aborted |-> FALSE]}
        /\ UNCHANGED <<tcpClosed, tcpSettled>>

\* TCPEndpoint::stop: the socket is closed, which aborts the operations
\* under way.
TCPEndpoint_stop ==
    /\ ~tcpClosed
    /\ tcpClosed' = TRUE
    /\ tcpOperations' = {[o EXCEPT !.aborted = TRUE] : o \in tcpOperations}
    /\ UNCHANGED <<tcpRequests, tcpSettled>>

\* TCPEndpoint::asyncOperationHandler
TCPEndpoint_asyncOperationHandler(ec, bytesTransferred, promise) ==
    tcpSettled' = Append(tcpSettled,
        IF ec = 0
        THEN [promise |-> promise, kind |-> "resolve",
              arg |-> [bytesTransferred |-> bytesTransferred], ec |-> ec]
        ELSE [promise |-> promise, kind |-> "reject", arg |-> TCPEndpoint_operationError(ec),
              ec |-> ec])

\* The socket completes an operation: only an operation under way when the
\* socket was closed ends with operation_aborted.
TCPEndpointCompletion ==
    \E o \in tcpOperations, ec \in ErrorCodes, bytesTransferred \in ActualLengths :
        /\ ec = operation_aborted => o.aborted
        /\ ec /= 0 => bytesTransferred = 0
        /\ tcpOperations' = tcpOperations \ {o}
        /\ TCPEndpoint_asyncOperationHandler(ec, bytesTransferred, o.promise)
        /\ UNCHANGED <<tcpRequests, tcpClosed>>

TCPEndpointInit ==
    /\ tcpOperations = {}
    /\ tcpClosed = FALSE
    /\ tcpRequests = 0
    /\ tcpSettled = <<>>

(***************************************************************************)
(* usb::USBHub.  libusb is the environment: while the hotplug callback is  *)
(* registered it reports device arrivals.  A query chain                   *)
(* (AccessoryModeQueryChain) is an external collaborator: started with a   *)
(* handle and a promise bound to the hub's strand_, it resolves or rejects *)
(* that promise once; cancel() makes it fail with OPERATION_ABORTED.       *)
(***************************************************************************)
\* The descriptors of arriving devices: idVendor and idProduct.
DeviceDescriptors ==
    [idVendor : {"cGoogleVendorId", "otherVendor"},
     idProduct : {"cAOAPId", "cAOAPWithAdbId", "otherProduct"}]

\* A test that takes every device of the vendor for an accessory.
USBHub_isAOAPDevice_VendorOnly(deviceDescriptor) ==
    deviceDescriptor.idVendor = "cGoogleVendorId"

\* USBHub::isAOAPDevice
USBHub_isAOAPDevice(deviceDescriptor) ==
    /\ deviceDescriptor.idVendor = "cGoogleVendorId"
    /\ (deviceDescriptor.idProduct = "cAOAPId" \/ deviceDescriptor.idProduct = "cAOAPWithAdbId")

\* The rejection of the promise the hub holds, if it holds one.
USBHub_rejectHeld(call) ==
    IF hotplugPromise_ /= NullPtr
    THEN <<[promise |-> hotplugPromise_.id, kind |-> "reject",
            arg |-> ErrorOf("OPERATION_ABORTED"), by |-> call]>>
    ELSE <<>>

\* A cancel that leaves the promise it holds pending.
USBHub_cancelRejects_Nothing(call) == <<>>

\* What cancel() rejects.
USBHub_cancelRejects(call) == USBHub_rejectHeld(call)

\* USBHub::start, the task on strand_: a promise still held is rejected,
\* the new one is kept, and the hotplug callback is registered unless it is.
USBHub_start(promise) ==
    /\ hubSettled' = hubSettled \o USBHub_rejectHeld("start")
    /\ hotplugPromise_' = [id |-> promise]
    /\ hubSelf_' = TRUE
    /\ UNCHANGED <<queryChainQueue_, hubStrand, hubChains, hubOpened>>

\* A client calls start with a new promise.
USBHubStart ==
    /\ hubStarts < MaxHubStarts
    /\ hubStarts' = hubStarts + 1
    /\ USBHub_start(hubStarts + 1)
    /\ UNCHANGED <<hubArrivals, hubDevice, hubCancels>>

\* USBHub::cancel, the task on strand_: the promise held is rejected, every
\* chain of the queue is cancelled, the hotplug callback is unregistered.
USBHub_cancel ==
    /\ hubSettled' = hubSettled \o USBHub_cancelRejects("cancel")
    /\ hotplugPromise_' = NullPtr
    /\ queryChainQueue_' = [k \in 1..Len(queryChainQueue_) |->
                                [queryChainQueue_[k] EXCEPT !.cancelled = TRUE]]
    /\ hubSelf_' = FALSE
    /\ UNCHANGED <<hubStrand, hubChains, hubOpened>>

\* A client calls cancel.
USBHubCancel ==
    /\ hubCancels < MaxHubCancels
    /\ hubCancels' = hubCancels + 1
    /\ USBHub_cancel
    /\ UNCHANGED <<hubStarts, hubArrivals, hubDevice>>

\* A handleDevice that keeps the promise it resolved.
USBHub_handleDevice_KeepsPromise(device, deviceDescriptor, descriptorResult, openResult) ==
    IF hotplugPromise_ = NullPtr \/ ~descriptorResult
    THEN UNCHANGED <<hotplugPromise_, hubSettled, queryChainQueue_, hubChains, hubOpened>>
    ELSE /\ hubOpened' = hubOpened \cup {device}
         /\ IF ~openResult
            THEN UNCHANGED <<hotplugPromise_, hubSettled, queryChainQueue_, hubChains>>
            ELSE IF USBHub_isAOAPDevice(deviceDescriptor)
                 THEN /\ hubSettled' = Append(hubSettled,
                            [promise |-> hotplugPromise_.id, kind |-> "resolve",
                             arg |-> [handle |-> device], by |-> "handleDevice"])
                      /\ UNCHANGED <<hotplugPromise_, queryChainQueue_, hubChains>>
                 ELSE /\ queryChainQueue_' = Append(queryChainQueue_,
                            [chain |-> hubChains + 1, handle |-> device, cancelled |-> FALSE,
                             settled |-> FALSE])
                      /\ hubChains' = hubChains + 1
                      /\ UNCHANGED <<hotplugPromise_, hubSettled>>

\* USBHub::handleDevice, the task on strand_: descriptorResult and
\* openResult are whether getDeviceDescriptor and open succeed.
USBHub_handleDevice(device, deviceDescriptor, descriptorResult, openResult) ==
    IF hotplugPromise_ = NullPtr \/ ~descriptorResult
    THEN UNCHANGED <<hotplugPromise_, hubSettled, queryChainQueue_, hubChains, hubOpened>>
    ELSE /\ hubOpened' = hubOpened \cup {device}
         /\ IF ~openResult
            THEN UNCHANGED <<hotplugPromise_, hubSettled, queryChainQueue_, hubChains>>
            ELSE IF USBHub_isAOAPDevice(deviceDescriptor)
                 THEN /\ hubSettled' = Append(hubSettled,
                            [promise |-> hotplugPromise_.id, kind |-> "resolve",
                             arg |-> [handle |-> device], by |-> "handleDevice"])
                      /\ hotplugPromise_' = NullPtr
                      /\ UNCHANGED <<queryChainQueue_, hubChains>>
                 ELSE /\ queryChainQueue_' = Append(queryChainQueue_,
                            [chain |-> hubChains + 1, handle |-> device, cancelled |-> FALSE,
                             settled |-> FALSE])
                      /\ hubChains' = hubChains + 1
                      /\ UNCHANGED <<hotplugPromise_, hubSettled>>

\* libusb reports the arrival of a device to the registered callback.
USBHubDeviceArrived ==
    \E deviceDescriptor \in DeviceDescriptors, descriptorResult, openResult \in BOOLEAN :
        /\ hubSelf_
        /\ hubArrivals < MaxDevices
        /\ hubArrivals' = hubArrivals + 1
        /\ hubDevice' = [deviceDescriptor |-> deviceDescriptor,
                         descriptorResult |-> descriptorResult, openResult |-> openResult]
        /\ USBHub_handleDevice(hubArrivals + 1, deviceDescriptor, descriptorResult, openResult)
        /\ UNCHANGED <<hubSelf_, hubStrand, hubStarts, hubCancels>>

\* A handleDevice task that libusb's callback dispatched to strand_ before
\* cancel() unregistered the callback, and that strand_ runs after it.
USBHubLateDeviceArrived ==
    \E deviceDescriptor \in DeviceDescriptors, descriptorResult, openResult \in BOOLEAN :
        /\ ~hubSelf_
        /\ hubCancels > 0 /\ hubStarts > 0
        /\ hubArrivals < MaxDevices
        /\ hubArrivals' = hubArrivals + 1
        /\ hubDevice' = [deviceDescriptor |-> deviceDescriptor,
                         descriptorResult |-> descriptorResult, openResult |-> openResult]
        /\ USBHub_handleDevice(hubArrivals + 1, deviceDescriptor, descriptorResult, openResult)
        /\ UNCHANGED <<hubSelf_, hubStrand, hubStarts, hubCancels>>

\* A query chain of the queue resolves its promise (the device was switched
\* to accessory mode) or rejects it (a query failed, or the chain was
\* cancelled): the handler is posted to strand_.
QueryChainSettles ==
    \E k \in 1..Len(queryChainQueue_), ok \in BOOLEAN :
        /\ ~queryChainQueue_[k].settled
        /\ queryChainQueue_[k].cancelled => ~ok
        /\ queryChainQueue_' = [queryChainQueue_ EXCEPT ![k].settled = TRUE]
        /\ hubStrand' = Append(hubStrand, [chain |-> queryChainQueue_[k].chain,
                                           kind |-> IF ok THEN "resolve" ELSE "reject"])
        /\ UNCHANGED <<hotplugPromise_, hubSelf_, hubChains, hubSettled, hubStarts,
                       hubArrivals, hubDevice, hubCancels, hubOpened>>

\* The handlers of queryChainPromise, on strand_: the chain is erased from
\* the queue.
USBHub_queryChainHandler(chain) ==
    /\ queryChainQueue_' = SelectSeq(queryChainQueue_, LAMBDA q : q.chain /= chain)
    /\ UNCHANGED <<hotplugPromise_, hubSelf_, hubChains, hubSettled, hubOpened>>

\* strand_ runs the handler of a settled query chain.
USBHubQueryChainHandler ==
    /\ hubStrand /= <<>>
    /\ hubStrand' = Tail(hubStrand)
    /\ USBHub_queryChainHandler(Head(hubStrand).chain)
    /\ UNCHANGED <<hubStarts, hubArrivals, hubDevice, hubCancels>>

USBHubInit ==
    /\ hotplugPromise_ = NullPtr
    /\ hubSelf_ = FALSE
    /\ queryChainQueue_ = <<>>
    /\ hubStrand = <<>>
    /\ hubChains = 0
    /\ hubStarts = 0
    /\ hubArrivals = 0
    /\ hubDevice = Null
    /\ hubSettled = <<>>
    /\ hubOpened = {}
    /\ hubCancels = 0

\* The endpoints and the hub as constructed, on a bulk endpoint.
EndpointsInit == USBEndpointInit(1) /\ TCPEndpointInit /\ USBHubInit

(***************************************************************************)
(* The strands of the Messenger and of the MessageInStream: which function *)
(* runs where, and which members it reads or writes.                       *)
(***************************************************************************)
\* Where each function of the Messenger and of the MessageInStream runs: the
\* strand its lambda is dispatched to or its promise was deferred on, or the
\* thread of the caller.
RunsOn ==
    [enqueueReceive |-> "receiveStrand_",
     inStreamMessageHandler |-> "receiveStrand_",
     interleavedMessageHandler |-> "receiveStrand_",
     rejectReceivePromiseQueue |-> "receiveStrand_",
     stopTask |-> "receiveStrand_",
     enqueueSend |-> "sendStrand_",
     outStreamMessageHandler |-> "sendStrand_",
     rejectSendPromiseQueue |-> "sendStrand_",
     stop |-> "caller",
     startReceive |-> "strand_",
     receiveFrameHeaderHandler |-> "strand_",
     receiveFrameSizeHandler |-> "strand_",
     receiveFramePayloadHandler |-> "strand_",
     rejectFrame |-> "strand_"]

\* The members each function reads or writes, those of the functions it
\* calls in place included (setInterleavedHandler writes interleavedPromise_
\* in the thread of its caller).
Touches ==
    [enqueueReceive |-> {"interleavedPromise_", "channelReceiveMessageQueue_",
                         "currentPromiseIndex_", "channelReceivePromiseQueue_",
                         "currentMessageIndex_"},
     inStreamMessageHandler |-> {"currentMessageIndex_", "channelReceivePromiseQueue_",
                                 "currentPromiseIndex_", "channelReceiveMessageQueue_"},
     interleavedMessageHandler |-> {"channelReceiveMessageQueue_", "interleavedPromise_"},
     rejectReceivePromiseQueue |-> {"channelReceivePromiseQueue_", "currentPromiseIndex_"},
     stopTask |-> {"channelReceiveMessageQueue_"},
     enqueueSend |-> {"channelSendPromiseQueue_"},
     outStreamMessageHandler |-> {"channelSendPromiseQueue_"},
     rejectSendPromiseQueue |-> {"channelSendPromiseQueue_"},
     stop |-> {"currentPromiseIndex_"},
     startReceive |-> {"promise_", "isNewMessage_"},
     receiveFrameHeaderHandler |-> {"isInterleaved_", "isNewMessage_",
                                    "originalMessageChannelId_", "message_",
                                    "messageBuffer_", "thisFrameType_"},
     receiveFrameSizeHandler |-> {"frameSize_"},
     receiveFramePayloadHandler |-> {"message_", "frameSize_", "promise_", "thisFrameType_",
                                     "isInterleaved_", "interleavedPromise_"},
     rejectFrame |-> {"message_", "promise_"}]

\* The strand each member belongs to: the Messenger's receive members to
\* receiveStrand_, its send queue to sendStrand_, the members of the
\* MessageInStream to strand_.
OwnerOf(member) ==
    IF member \in {"channelReceiveMessageQueue_", "channelReceivePromiseQueue_",
                   "currentPromiseIndex_", "currentMessageIndex_"}
    THEN "receiveStrand_"
    ELSE IF member = "channelSendPromiseQueue_" THEN "sendStrand_"
    ELSE "strand_"

StrandNames == {"receiveStrand_", "sendStrand_", "strand_"}

\* The functions in execution on strand or thread e.
ActiveOn(e) == {f \in active : RunsOn[f] = e}

\* A thread of the io_service starts a task of a strand that runs none; the
\* task of stop() only once stop() dispatched it.
StrandTaskBegins ==
    \E f \in DOMAIN RunsOn :
        /\ RunsOn[f] \in StrandNames
        /\ ActiveOn(RunsOn[f]) = {}
        /\ f = "stopTask" => stopPending > 0
        /\ active' = active \cup {f}
        /\ stopPending' = IF f = "stopTask" THEN stopPending - 1 ELSE stopPending
        /\ UNCHANGED stopCalls

\* A task of a strand returns.
StrandTaskEnds ==
    \E f \in active :
        /\ RunsOn[f] \in StrandNames
        /\ active' = active \ {f}
        /\ UNCHANGED <<stopCalls, stopPending>>

\* A client calls Messenger::stop() from its own thread.
StopCalled ==
    /\ stopCalls < MaxStopCalls
    /\ "stop" \notin active
    /\ active' = active \cup {"stop"}
    /\ stopCalls' = stopCalls + 1
    /\ UNCHANGED stopPending

\* Messenger::stop() returns, having dispatched its task to receiveStrand_.
StopReturns ==
    /\ "stop" \in active
    /\ active' = active \ {"stop"}
    /\ stopPending' = stopPending + 1
    /\ UNCHANGED stopCalls

StrandAccessInit ==
    /\ active = {}
    /\ stopCalls = 0
    /\ stopPending = 0

(***************************************************************************)
(* common::DataBuffer and common::DataConstBuffer.  A view is the pointer  *)
(* it holds (null, or the position in the underlying bytes it points at)   *)
(* and its size.                                                           *)
(***************************************************************************)
\* DataBuffer::DataBuffer() / DataConstBuffer::DataConstBuffer()
NullBuffer == [isNull |-> TRUE, at |-> 0, size |-> 0]

\* DataBuffer::DataBuffer(_data, _size, offset) and
\* DataConstBuffer::DataConstBuffer(_data, _size, offset); ptrNull: _data is
\* nullptr.  The constructors from void* delegate to these.
BufferFromPointer(ptrNull, size, offset) ==
    IF offset > size \/ ptrNull \/ size = 0
    THEN NullBuffer
    ELSE [isNull |-> FALSE, at |-> offset, size |-> size - offset]

\* DataBuffer::DataBuffer(Data&, offset) and
\* DataConstBuffer::DataConstBuffer(const Data&, offset) over a Data of the
\* given size.
BufferFromData(size, offset) ==
    BufferFromPointer(size = 0, size, IF offset > size THEN 0 ELSE offset)

\* The constructors of the two views.
PointerConstructors ==
    {"DataBuffer(Data::value_type*)", "DataBuffer(void*)",
     "DataConstBuffer(const Data::value_type*)", "DataConstBuffer(const void*)"}
DataConstructors == {"DataBuffer(Data&)", "DataConstBuffer(const Data&)"}

\* A view is constructed over size bytes at a pointer, or over none.
DataFromPointer ==
    \E ctor \in PointerConstructors, ptrNull \in BOOLEAN,
       size \in 0..MaxDataSize, offset \in 0..MaxDataOffset :
        /\ dataCall' = [ctor |-> ctor, ptrNull |-> ptrNull, size |-> size, offset |-> offset]
        /\ dataView' = BufferFromPointer(ptrNull, size, offset)

\* A view is constructed over a Data object of size bytes.
DataFromData ==
    \E ctor \in DataConstructors, size \in 0..MaxDataSize, offset \in 0..MaxDataOffset :
        /\ dataCall' = [ctor |-> ctor, ptrNull |-> FALSE, size |-> size, offset |-> offset]
        /\ dataView' = BufferFromData(size, offset)

\* No view constructed yet but a default one.
DataInit ==
    /\ dataCall = [ctor |-> "DataBuffer()", ptrNull |-> TRUE, size |-> 0, offset |-> 0]
    /\ dataView = NullBuffer

(***************************************************************************)
(* The service channels MediaBrowserService and WIFIServiceChannel: what   *)
(* messageHandler does with a received message.  An event handler is       *)
(* "eventHandler", or Null for an empty shared_ptr.                        *)
(***************************************************************************)
Services == {"MediaBrowserService", "WIFIServiceChannel"}

\* The message ids a channel receives: the channel open request, the WIFI
\* credentials request, a media browser node id, and an id no channel knows.
MessageIds == {"CHANNEL_OPEN_REQUEST", "CREDENTIALS_REQUEST", "MEDIA_ROOT_NODE", "UNKNOWN"}

\* What a member call through an empty event handler can do.
NullCallOutcomes == {"crash", "returns"}

\* eventHandler->callback(...): the callback, or for an empty event handler
\* the outcome ub of the undefined call.
CallOn(eventHandler, callback, ub) ==
    [on |-> eventHandler, callback |-> IF eventHandler = Null THEN ub ELSE callback]

\* handleChannelOpenRequest(payload, eventHandler) of either channel.
handleChannelOpenRequest(parsed, eventHandler, ub) ==
    CallOn(eventHandler, IF parsed THEN "onChannelOpenRequest" ELSE "onChannelError", ub)

\* The event handler left in a shared_ptr after std::move(eventHandler) was
\* passed to a by-value parameter.
MovedFrom(eventHandler) == Null

\* WIFIServiceChannel::messageHandler: the callbacks it calls and the event
\* handlers it calls receive() with.
WIFIServiceChannel_messageHandler(id, parsed, eventHandler, ub) ==
    CASE id = "CHANNEL_OPEN_REQUEST" ->
             [callbacks |-> <<handleChannelOpenRequest(parsed, eventHandler, ub)>>,
              receives |-> <<>>]
      [] id = "CREDENTIALS_REQUEST" ->
             [callbacks |-> <<CallOn(eventHandler, "onWifiSecurityRequest", ub)>>,
              receives |-> <<>>]
      [] OTHER ->
             [callbacks |-> <<>>, receives |-> <<eventHandler>>]

\* MediaBrowserService::messageHandler: the case of the channel open request
\* has no break and falls through the node ids into default.
MediaBrowserService_messageHandler(id, parsed, eventHandler, ub) ==
    CASE id = "CHANNEL_OPEN_REQUEST" ->
             [callbacks |-> <<handleChannelOpenRequest(parsed, eventHandler, ub)>>,
              receives |-> <<MovedFrom(eventHandler)>>]
      [] OTHER ->
             [callbacks |-> <<>>, receives |-> <<eventHandler>>]

messageHandler(service, id, parsed, eventHandler, ub) ==
    IF service = "WIFIServiceChannel"
    THEN WIFIServiceChannel_messageHandler(id, parsed, eventHandler, ub)
    ELSE MediaBrowserService_messageHandler(id, parsed, eventHandler, ub)

\* A call through an empty event handler has crashed the process.
ServiceCrashed ==
    \E k \in 1..Len(handledMessages) :
        \E j \in 1..Len(handledMessages[k].callbacks) :
            handledMessages[k].callbacks[j].callback = "crash"

\* The application calls receive(eventHandler) on a service: a receive
\* promise bound to the event handler is enqueued for the channel.
ServiceReceive ==
    \E service \in Services :
        /\ ~ServiceCrashed
        /\ serviceReceives < MaxServiceReceives
        /\ serviceReceives' = serviceReceives + 1
        /\ receivePromises' = [receivePromises EXCEPT ![service] = Append(@, "eventHandler")]
        /\ UNCHANGED handledMessages

\* The Messenger resolves the oldest receive promise of a service with a
\* message: the channel's strand runs messageHandler with the event handler
\* bound in the promise.
ServiceMessage ==
    \E service \in Services, id \in MessageIds, parsed \in BOOLEAN, ub \in NullCallOutcomes :
        /\ ~ServiceCrashed
        /\ Len(handledMessages) < MaxServiceMessages
        /\ receivePromises[service] /= <<>>
        /\ id /= "CHANNEL_OPEN_REQUEST" => parsed
        /\ LET eventHandler == Head(receivePromises[service])
               h == messageHandler(service, id, parsed, eventHandler, ub)
           IN  /\ eventHandler /= Null \/ h.callbacks = <<>> => ub = "returns"
               /\ handledMessages' = Append(handledMessages,
                      [service |-> service, id |-> id, eventHandler |-> eventHandler,
                       callbacks |-> h.callbacks, receives |-> h.receives])
               /\ receivePromises' = [receivePromises EXCEPT
                                          ![service] = Tail(@) \o h.receives]
        /\ UNCHANGED serviceReceives

ServiceInit ==
    /\ receivePromises = [service \in Services |-> <<>>]
    /\ handledMessages = <<>>
    /\ serviceReceives = 0

(***************************************************************************)
(* Specifications.                                                         *)
(***************************************************************************)
\* The components that no other one uses, as constructed.
UnitsInit == StrandAccessInit /\ DataInit /\ ServiceInit

\* The link carries the bytes of the frames fs; whole: one physical read
\* delivers them all.
LinkInit(fs, bytes, whole) ==
    /\ frames = fs
    /\ wireAll = bytes
    /\ wire = bytes
    /\ linkWhole = whole
    /\ chunks = "none"

\* The Promise specification: then, resolve and reject called in any order.
SpecPromiseInit ==
    /\ PromiseInit /\ TransportInit /\ InStreamInit
    /\ LinkInit(<<>>, <<>>, FALSE)
    /\ MessengerInit /\ EndpointsInit /\ UnitsInit

SpecPromiseNext ==
    \/ PromiseThenCall
         /\ UNCHANGED <<unitVars, endpointVars, linkVars, transportState, inStreamState, strands, messengerState>>
    \/ PromiseResolveCall
         /\ UNCHANGED <<unitVars, endpointVars, linkVars, transportState, inStreamState, strands, messengerState>>
    \/ PromiseRejectCall
         /\ UNCHANGED <<unitVars, endpointVars, linkVars, transportState, inStreamState, strands, messengerState>>
    \/ PromiseRunPosted
         /\ UNCHANGED <<unitVars, endpointVars, linkVars, transportState, inStreamState, strands, messengerState>>

SpecPromise == SpecPromiseInit /\ [][SpecPromiseNext]_vars

\* The USBTransport send specification: clients outside the model send byte
\* strings, the bulk-OUT endpoint completes each transfer with any number of
\* bytes it may carry, or fails it.
USBTransportNext ==
    \/ USBTransportClientSend
         /\ UNCHANGED <<unitVars, endpointVars, promiseVars, linkVars, transportReceive, inStreamState,
                        strands, messengerState>>
    \/ USBTransportSendHandler
         /\ UNCHANGED <<unitVars, endpointVars, promiseVars, linkVars, transportReceive, inStreamState,
                        strands, messengerState>>
    \/ USBTransportSendRejected
         /\ UNCHANGED <<unitVars, endpointVars, promiseVars, linkVars, transportReceive, inStreamState,
                        strands, messengerState>>

SpecUSBTransport == SpecPromiseInit /\ [][USBTransportNext]_vars

\* The executor specification: promises constructed with the io_service or
\* with a strand; then, resolve and reject are called by any thread at any
\* time, also while tasks are running; the threads of the io_service run the
\* posted tasks.
SpecExecutorInit ==
    /\ \E b \in [PromiseIds -> Executors] : PromiseInitOn(b)
    /\ TransportInit /\ InStreamInit
    /\ LinkInit(<<>>, <<>>, FALSE)
    /\ MessengerInit /\ EndpointsInit /\ UnitsInit

SpecExecutorNext ==
    \/ PromiseThenCall
         /\ Len(prHist) < MaxExecutorCalls
         /\ UNCHANGED <<unitVars, endpointVars, linkVars, transportState, inStreamState, strands, messengerState>>
    \/ PromiseResolveCall
         /\ Len(prHist) < MaxExecutorCalls
         /\ UNCHANGED <<unitVars, endpointVars, linkVars, transportState, inStreamState, strands, messengerState>>
    \/ PromiseRejectCall
         /\ Len(prHist) < MaxExecutorCalls
         /\ UNCHANGED <<unitVars, endpointVars, linkVars, transportState, inStreamState, strands, messengerState>>
    \/ ExecutorPost
         /\ UNCHANGED <<unitVars, endpointVars, linkVars, transportState, inStreamState, strands, messengerState>>
    \/ ExecutorBegin
         /\ UNCHANGED <<unitVars, endpointVars, linkVars, transportState, inStreamState, strands, messengerState>>
    \/ ExecutorEnd
         /\ UNCHANGED <<unitVars, endpointVars, linkVars, transportState, inStreamState, strands, messengerState>>

SpecExecutor == SpecExecutorInit /\ [][SpecExecutorNext]_vars

\* The Transport specification: clients outside the model ask for bytes, the
\* link delivers TransportWireLen bytes in chunks of any size.
SpecTransportInit ==
    /\ PromiseInit /\ TransportInit /\ InStreamInit
    /\ LinkInit(<<>>, [i \in 1..TransportWireLen |-> i], FALSE)
    /\ MessengerInit /\ EndpointsInit /\ UnitsInit

SpecTransportNext ==
    \/ TransportClientReceive
         /\ UNCHANGED <<unitVars, endpointVars, promiseVars, linkVars, inStreamState, rStrand, messengerState>>
    \/ Transport_receiveHandler
         /\ UNCHANGED <<unitVars, endpointVars, promiseVars, inStreamState, rStrand, messengerState>>

SpecTransport == SpecTransportInit /\ [][SpecTransportNext]_vars

\* The abort of the cancelled read, as a step of the stop specification.
TransportAbortStep ==
    TransportReceiveAborted
      /\ UNCHANGED <<unitVars, endpointVars, promiseVars, linkVars, inStreamOwn, interleavedPromise_, rStrand,
                     messengerState>>

\* The steps of the Transport's receive side with stop(): once stop() was
\* called no receive is made and no read delivers bytes.
TransportStopNext ==
    \/ TransportClientReceive
         /\ tStop = "running"
         /\ UNCHANGED <<unitVars, endpointVars, promiseVars, linkVars, inStreamState, rStrand, messengerState>>
    \/ Transport_receiveHandler
         /\ tStop = "running"
         /\ UNCHANGED <<unitVars, endpointVars, promiseVars, inStreamState, rStrand, messengerState>>
    \/ TransportStop
         /\ UNCHANGED <<unitVars, endpointVars, promiseVars, linkVars, inStreamOwn, interleavedPromise_, rStrand,
                        messengerState>>
    \/ TransportAbortStep

\* The Transport's stop specification: the link of SpecTransport, and one
\* stop() at any time.  The io_service delivers the completion of a
\* cancelled transfer, hence the weak fairness of the abort.
SpecTransportStop ==
    SpecTransportInit /\ [][TransportStopNext]_vars /\ WF_vars(TransportAbortStep)

\* The steps of the Transport and of the MessageInStream under a consumer
\* outside the model.
InStreamNext ==
    \/ ConsumerSetInterleavedHandler
         /\ UNCHANGED <<unitVars, endpointVars, promiseVars, linkVars, transportState, strands, messengerState>>
    \/ ConsumerStartReceive
         /\ UNCHANGED <<unitVars, endpointVars, promiseVars, linkVars, transportState, inStrand, messengerState>>
    \/ InStreamHeader
         /\ UNCHANGED <<unitVars, endpointVars, promiseVars, linkVars, transportState, messengerState>>
    \/ InStreamSize
         /\ UNCHANGED <<unitVars, endpointVars, promiseVars, linkVars, transportState, messengerState>>
    \/ InStreamPayload
         /\ UNCHANGED <<unitVars, endpointVars, promiseVars, linkVars, transportState, messengerState>>
    \/ TransportRunReceive
         /\ UNCHANGED <<unitVars, endpointVars, promiseVars, linkVars, inStreamState, rStrand, messengerState>>
    \/ Transport_receiveHandler
         /\ UNCHANGED <<unitVars, endpointVars, promiseVars, inStreamState, rStrand, messengerState>>

\* The MessageInStream specification: the peer sends any valid interleaving
\* of MaxFrames frames, which one physical read delivers.
SpecInStreamInit ==
    /\ PromiseInit /\ TransportInit /\ InStreamInit
    /\ \E fs \in ValidStreams(MaxFrames, {}, 0) :
           LinkInit(WithPayloads(fs), EncodeStream(WithPayloads(fs)), TRUE)
    /\ MessengerInit /\ EndpointsInit /\ UnitsInit

SpecInStream == SpecInStreamInit /\ [][InStreamNext]_vars

\* The MessageInStream specification for arbitrary streams: the peer sends
\* any MaxAnyFrames frames, well formed or not.
SpecInStreamAnyInit ==
    /\ PromiseInit /\ TransportInit /\ InStreamInit
    /\ \E fs \in AnyStreams(MaxAnyFrames, 0) :
           LinkInit(WithPayloads(fs), EncodeStream(WithPayloads(fs)), TRUE)
    /\ MessengerInit /\ EndpointsInit /\ UnitsInit

SpecInStreamAny == SpecInStreamAnyInit /\ [][InStreamNext]_vars

\* The MessageInStream specification for encrypted frames: the peer sends
\* any valid interleaving of MaxCryptFrames encrypted frames, and the
\* decryption of a frame may fail.
SpecInStreamCryptInit ==
    /\ PromiseInit /\ TransportInit /\ InStreamInit
    /\ \E fs \in ValidStreams(MaxCryptFrames, {}, 0) :
           LinkInit(WithPayloads(fs), EncodeEncryptedStream(WithPayloads(fs)), TRUE)
    /\ MessengerInit /\ EndpointsInit /\ UnitsInit

SpecInStreamCrypt == SpecInStreamCryptInit /\ [][InStreamNext]_vars

\* The pipeline specification: the peer sends any valid interleaving of
\* MaxPipeFrames frames, which the physical reads deliver in chunks of any
\* size.
SpecPipelineInit ==
    /\ PromiseInit /\ TransportInit /\ InStreamInit
    /\ \E fs \in ValidStreams(MaxPipeFrames, {}, 0) :
           LinkInit(WithPayloads(fs), EncodeStream(WithPayloads(fs)), FALSE)
    /\ MessengerInit /\ EndpointsInit /\ UnitsInit

SpecPipeline == SpecPipelineInit /\ [][InStreamNext]_vars

\* The steps of the Messenger's receive side over the MessageInStream and
\* the Transport.
MessengerReceiveNext ==
    \/ MessengerEnqueueReceive
         /\ UNCHANGED <<unitVars, endpointVars, promiseVars, linkVars, transportState, messengerSend, mStop>>
    \/ MessengerInStreamMessage
         /\ UNCHANGED <<unitVars, endpointVars, promiseVars, linkVars, transportState, messengerSend, mStop>>
    \/ MessengerInterleavedMessage
         /\ UNCHANGED <<unitVars, endpointVars, promiseVars, linkVars, transportState, messengerSend, mStop>>
    \/ InStreamStartReceive
         /\ UNCHANGED <<unitVars, endpointVars, promiseVars, linkVars, transportState, messengerState>>
    \/ InStreamHeader
         /\ UNCHANGED <<unitVars, endpointVars, promiseVars, linkVars, transportState, messengerState>>
    \/ InStreamSize
         /\ UNCHANGED <<unitVars, endpointVars, promiseVars, linkVars, transportState, messengerState>>
    \/ InStreamPayload
         /\ UNCHANGED <<unitVars, endpointVars, promiseVars, linkVars, transportState, messengerState>>
    \/ TransportRunReceive
         /\ UNCHANGED <<unitVars, endpointVars, promiseVars, linkVars, inStreamState, rStrand, messengerState>>
    \/ Transport_receiveHandler
         /\ UNCHANGED <<unitVars, endpointVars, promiseVars, inStreamState, rStrand, messengerState>>

\* The Messenger's receive specification: the service channels make
\* MaxReceives enqueueReceive calls on any channels at any time, the peer
\* sends any valid interleaving of MaxMessengerFrames frames.
SpecMessengerInit ==
    /\ PromiseInit /\ TransportInit /\ InStreamInit
    /\ \E fs \in ValidStreams(MaxMessengerFrames, {}, 0) :
           LinkInit(WithPayloads(fs), EncodeStream(WithPayloads(fs)), TRUE)
    /\ MessengerInit /\ EndpointsInit /\ UnitsInit

SpecMessenger == SpecMessengerInit /\ [][MessengerReceiveNext]_vars

\* The steps of the Messenger's receive side over a link whose physical
\* reads can fail; once a read has failed the link delivers no more bytes.
MessengerRejectNext ==
    \/ MessengerEnqueueReceive
         /\ UNCHANGED <<unitVars, endpointVars, promiseVars, linkVars, transportState, messengerSend, mStop>>
    \/ MessengerInStreamMessage
         /\ UNCHANGED <<unitVars, endpointVars, promiseVars, linkVars, transportState, messengerSend, mStop>>
    \/ MessengerInterleavedMessage
         /\ UNCHANGED <<unitVars, endpointVars, promiseVars, linkVars, transportState, messengerSend, mStop>>
    \/ MessengerRejectReceivePromiseQueue
         /\ UNCHANGED <<unitVars, endpointVars, promiseVars, linkVars, transportState, messengerSend, mStop>>
    \/ InStreamStartReceive
         /\ UNCHANGED <<unitVars, endpointVars, promiseVars, linkVars, transportState, messengerState>>
    \/ InStreamHeader
         /\ UNCHANGED <<unitVars, endpointVars, promiseVars, linkVars, transportState, messengerState>>
    \/ InStreamSize
         /\ UNCHANGED <<unitVars, endpointVars, promiseVars, linkVars, transportState, messengerState>>
    \/ InStreamPayload
         /\ UNCHANGED <<unitVars, endpointVars, promiseVars, linkVars, transportState, messengerState>>
    \/ InStreamReject
         /\ UNCHANGED <<unitVars, endpointVars, promiseVars, linkVars, transportState, messengerState>>
    \/ TransportRunReceive
         /\ UNCHANGED <<unitVars, endpointVars, promiseVars, linkVars, inStreamState, rStrand, messengerState>>
    \/ Transport_receiveHandler
         /\ tRejected = <<>>
         /\ UNCHANGED <<unitVars, endpointVars, promiseVars, inStreamState, rStrand, messengerState>>
    \/ TransportReceiveFailed
         /\ UNCHANGED <<unitVars, endpointVars, promiseVars, linkVars, inStreamState, rStrand, messengerState>>

\* The Messenger's reject specification: the calls and the streams of
\* SpecMessenger, and physical reads that fail at any time.
SpecMessengerReject == SpecMessengerInit /\ [][MessengerRejectNext]_vars

\* The frames of scenario S3: FIRST(VIDEO), BULK(INPUT), MIDDLE(VIDEO),
\* LAST(VIDEO), with VIDEO channel 1 and INPUT channel 2.
S3Frames ==
    <<[channelId |-> 1, type |-> "FIRST"], [channelId |-> 2, type |-> "BULK"],
      [channelId |-> 1, type |-> "MIDDLE"], [channelId |-> 1, type |-> "LAST"]>>

\* The specification of scenario S3: the peer sends S3Frames, the service
\* channels make MaxReceives enqueueReceive calls on any channels at any time.
SpecMessengerS3Init ==
    /\ PromiseInit /\ TransportInit /\ InStreamInit
    /\ LinkInit(WithPayloads(S3Frames), EncodeStream(WithPayloads(S3Frames)), TRUE)
    /\ MessengerInit /\ EndpointsInit /\ UnitsInit

SpecMessengerS3 == SpecMessengerS3Init /\ [][MessengerReceiveNext]_vars

\* The steps of the Messenger with its send side and stop().
MessengerStopNext ==
    \/ MessengerEnqueueReceive
         /\ UNCHANGED <<unitVars, endpointVars, promiseVars, linkVars, transportState, messengerSend, mStop>>
    \/ MessengerInStreamMessage
         /\ UNCHANGED <<unitVars, endpointVars, promiseVars, linkVars, transportState, messengerSend, mStop>>
    \/ MessengerInterleavedMessage
         /\ UNCHANGED <<unitVars, endpointVars, promiseVars, linkVars, transportState, messengerSend, mStop>>
    \/ MessengerStop
         /\ UNCHANGED <<unitVars, endpointVars, promiseVars, linkVars, transportState, inStreamState, tStrand,
                        inStrand, messengerSend>>
    \/ MessengerStopTask
         /\ UNCHANGED <<unitVars, endpointVars, promiseVars, linkVars, transportState, inStreamState, tStrand,
                        inStrand, messengerSend>>
    \/ MessengerEnqueueSend
         /\ sendLog < MaxStopSends
         /\ UNCHANGED <<unitVars, endpointVars, promiseVars, linkVars, transportState, inStreamState, strands,
                        messengerReceive, mStop>>
    \/ OutStreamWritten
         /\ UNCHANGED <<unitVars, endpointVars, promiseVars, linkVars, transportState, inStreamState, strands,
                        messengerReceive, mStop>>
    \/ OutStreamFailed
         /\ UNCHANGED <<unitVars, endpointVars, promiseVars, linkVars, transportState, inStreamState, strands,
                        messengerReceive, mStop>>
    \/ MessengerOutStreamMessage
         /\ UNCHANGED <<unitVars, endpointVars, promiseVars, linkVars, transportState, inStreamState, strands,
                        messengerReceive, mStop>>
    \/ MessengerRejectSendPromiseQueue
         /\ UNCHANGED <<unitVars, endpointVars, promiseVars, linkVars, transportState, inStreamState, strands,
                        messengerReceive, mStop>>
    \/ InStreamStartReceive
         /\ UNCHANGED <<unitVars, endpointVars, promiseVars, linkVars, transportState, messengerState>>
    \/ InStreamHeader
         /\ UNCHANGED <<unitVars, endpointVars, promiseVars, linkVars, transportState, messengerState>>
    \/ InStreamSize
         /\ UNCHANGED <<unitVars, endpointVars, promiseVars, linkVars, transportState, messengerState>>
    \/ InStreamPayload
         /\ UNCHANGED <<unitVars, endpointVars, promiseVars, linkVars, transportState, messengerState>>
    \/ TransportRunReceive
         /\ UNCHANGED <<unitVars, endpointVars, promiseVars, linkVars, inStreamState, rStrand, messengerState>>
    \/ Transport_receiveHandler
         /\ UNCHANGED <<unitVars, endpointVars, promiseVars, inStreamState, rStrand, messengerState>>

\* The Messenger's stop specification: MaxReceives enqueueReceive calls,
\* MaxSends enqueueSend calls and one stop() at any time, the peer sends any
\* valid interleaving of MaxStopFrames frames.
SpecMessengerStopInit ==
    /\ PromiseInit /\ TransportInit /\ InStreamInit
    /\ \E fs \in ValidStreams(MaxStopFrames, {}, 0) :
           LinkInit(WithPayloads(fs), EncodeStream(WithPayloads(fs)), TRUE)
    /\ MessengerInit /\ EndpointsInit /\ UnitsInit

SpecMessengerStop == SpecMessengerStopInit /\ [][MessengerStopNext]_vars

\* The steps of the Transport's send side.
TransportSendNext ==
    \/ TransportClientSend
         /\ UNCHANGED <<unitVars, endpointVars, promiseVars, linkVars, transportReceive, inStreamState, strands,
                        messengerState>>
    \/ TransportSendHandler
         /\ UNCHANGED <<unitVars, endpointVars, promiseVars, linkVars, transportReceive, inStreamState, strands,
                        messengerState>>

\* The Transport's send specification: MaxTransportSends send calls, each
\* physical write completes or fails; nothing is received.
SpecTransportSendInit ==
    /\ PromiseInit /\ TransportInit /\ InStreamInit
    /\ LinkInit(<<>>, <<>>, TRUE)
    /\ MessengerInit /\ EndpointsInit /\ UnitsInit

SpecTransportSend == SpecTransportSendInit /\ [][TransportSendNext]_vars

\* The steps of the Messenger's send side.
MessengerSendNext ==
    \/ MessengerEnqueueSend
         /\ UNCHANGED <<unitVars, endpointVars, promiseVars, linkVars, transportState, inStreamState, strands,
                        messengerReceive, mStop>>
    \/ OutStreamWritten
         /\ UNCHANGED <<unitVars, endpointVars, promiseVars, linkVars, transportState, inStreamState, strands,
                        messengerReceive, mStop>>
    \/ OutStreamFailed
         /\ UNCHANGED <<unitVars, endpointVars, promiseVars, linkVars, transportState, inStreamState, strands,
                        messengerReceive, mStop>>
    \/ MessengerOutStreamMessage
         /\ UNCHANGED <<unitVars, endpointVars, promiseVars, linkVars, transportState, inStreamState, strands,
                        messengerReceive, mStop>>
    \/ MessengerRejectSendPromiseQueue
         /\ UNCHANGED <<unitVars, endpointVars, promiseVars, linkVars, transportState, inStreamState, strands,
                        messengerReceive, mStop>>

\* The Messenger's send specification: MaxSends enqueueSend calls, each
\* write of the out stream succeeds or fails; nothing is received.
SpecMessengerSendInit ==
    /\ PromiseInit /\ TransportInit /\ InStreamInit
    /\ LinkInit(<<>>, <<>>, TRUE)
    /\ MessengerInit /\ EndpointsInit /\ UnitsInit

SpecMessengerSend == SpecMessengerSendInit /\ [][MessengerSendNext]_vars

\* The state of the Transport, the MessageInStream and the Messenger.
pipelineVars == <<promiseVars, linkVars, transportState, inStreamState, strands,
                  messengerState>>
coreVars == <<pipelineVars, unitVars>>

\* The Transport, the MessageInStream and the Messenger as constructed, on
\* a silent link.
CoreInit ==
    /\ PromiseInit /\ TransportInit /\ InStreamInit
    /\ LinkInit(<<>>, <<>>, TRUE)
    /\ MessengerInit /\ UnitsInit

\* The steps of the USBEndpoint.
USBEndpointNext ==
    \/ USBEndpointRequest
         /\ UNCHANGED <<coreVars, tcpEndpointState, usbHubState>>
    \/ USBEndpoint_cancelTransfers
         /\ UNCHANGED <<coreVars, tcpEndpointState, usbHubState>>
    \/ USBEndpointTransferHandler
         /\ UNCHANGED <<coreVars, tcpEndpointState, usbHubState>>
    \/ USBEndpointStrayTransferHandler
         /\ UNCHANGED <<coreVars, tcpEndpointState, usbHubState>>

\* The USBEndpoint specification: MaxTransfers transfer requests of any
\* method on the control endpoint or on a bulk endpoint, cancelTransfers at
\* any time, every submitted transfer completes with any status.
SpecUSBEndpointInit ==
    /\ CoreInit
    /\ \E address \in EndpointAddresses : USBEndpointInit(address)
    /\ TCPEndpointInit /\ USBHubInit

SpecUSBEndpoint == SpecUSBEndpointInit /\ [][USBEndpointNext]_vars

\* The steps of the USBHub.
USBHubNext ==
    \/ USBHubStart
         /\ UNCHANGED <<coreVars, usbEndpointState, tcpEndpointState>>
    \/ USBHubCancel
         /\ UNCHANGED <<coreVars, usbEndpointState, tcpEndpointState>>
    \/ USBHubDeviceArrived
         /\ UNCHANGED <<coreVars, usbEndpointState, tcpEndpointState>>
    \/ QueryChainSettles
         /\ UNCHANGED <<coreVars, usbEndpointState, tcpEndpointState>>
    \/ USBHubQueryChainHandler
         /\ UNCHANGED <<coreVars, usbEndpointState, tcpEndpointState>>

\* The USBHub specification: MaxHubStarts start calls and MaxHubCancels
\* cancel calls at any time, MaxDevices device arrivals of any kind.
SpecUSBHubInit == CoreInit /\ EndpointsInit

SpecUSBHub == SpecUSBHubInit /\ [][USBHubNext]_vars

\* The steps of the USBHub with handleDevice tasks that run after a cancel.
USBHubLateNext ==
    \/ USBHubStart
         /\ UNCHANGED <<coreVars, usbEndpointState, tcpEndpointState>>
    \/ USBHubCancel
         /\ UNCHANGED <<coreVars, usbEndpointState, tcpEndpointState>>
    \/ USBHubDeviceArrived
         /\ UNCHANGED <<coreVars, usbEndpointState, tcpEndpointState>>
    \/ USBHubLateDeviceArrived
         /\ UNCHANGED <<coreVars, usbEndpointState, tcpEndpointState>>
    \/ QueryChainSettles
         /\ UNCHANGED <<coreVars, usbEndpointState, tcpEndpointState>>
    \/ USBHubQueryChainHandler
         /\ UNCHANGED <<coreVars, usbEndpointState, tcpEndpointState>>

\* The USBHub specification with late arrivals: the calls and arrivals of
\* SpecUSBHub, and arrivals whose handleDevice runs after cancel().
SpecUSBHubLate == SpecUSBHubInit /\ [][USBHubLateNext]_vars

\* No call was made yet on the USBEndpoint, the TCPEndpoint, the USBHub.
USBEndpointUnused == epRequests = 0
TCPEndpointUnused == tcpRequests = 0 /\ ~tcpClosed
USBHubUnused == hubStarts = 0 /\ hubCancels = 0

\* The steps of the three layers that report a cancellation.  They share no
\* state, so a run drives one of them: the first call chooses which.
CancellationNext ==
    \/ USBEndpointRequest
         /\ TCPEndpointUnused /\ USBHubUnused
         /\ UNCHANGED <<coreVars, tcpEndpointState, usbHubState>>
    \/ USBEndpoint_cancelTransfers
         /\ TCPEndpointUnused /\ USBHubUnused
         /\ UNCHANGED <<coreVars, tcpEndpointState, usbHubState>>
    \/ USBEndpointTransferHandler
         /\ UNCHANGED <<coreVars, tcpEndpointState, usbHubState>>
    \/ TCPEndpointOperation
         /\ USBEndpointUnused /\ USBHubUnused
         /\ UNCHANGED <<coreVars, usbEndpointState, usbHubState>>
    \/ TCPEndpoint_stop
         /\ USBEndpointUnused /\ USBHubUnused
         /\ UNCHANGED <<coreVars, usbEndpointState, usbHubState>>
    \/ TCPEndpointCompletion
         /\ UNCHANGED <<coreVars, usbEndpointState, usbHubState>>
    \/ USBHubStart
         /\ USBEndpointUnused /\ TCPEndpointUnused
         /\ UNCHANGED <<coreVars, usbEndpointState, tcpEndpointState>>
    \/ USBHubCancel
         /\ USBEndpointUnused /\ TCPEndpointUnused
         /\ UNCHANGED <<coreVars, usbEndpointState, tcpEndpointState>>
    \/ USBHubDeviceArrived
         /\ UNCHANGED <<coreVars, usbEndpointState, tcpEndpointState>>
    \/ QueryChainSettles
         /\ UNCHANGED <<coreVars, usbEndpointState, tcpEndpointState>>
    \/ USBHubQueryChainHandler
         /\ UNCHANGED <<coreVars, usbEndpointState, tcpEndpointState>>

\* The cancellation specification: the transfers of SpecUSBEndpoint, or
\* MaxTcpOperations reads and writes on a TCPEndpoint that is closed at any
\* time, or the calls and arrivals of SpecUSBHub.
SpecCancellation == SpecUSBEndpointInit /\ [][CancellationNext]_vars

\* The strand specification: the threads of the io_service run the tasks of
\* the three strands, one task per strand at a time, while a client calls
\* stop().
StrandAccessNext ==
    \/ StrandTaskBegins
         /\ UNCHANGED <<pipelineVars, endpointVars, dataState, serviceState>>
    \/ StrandTaskEnds
         /\ UNCHANGED <<pipelineVars, endpointVars, dataState, serviceState>>
    \/ StopCalled
         /\ UNCHANGED <<pipelineVars, endpointVars, dataState, serviceState>>
    \/ StopReturns
         /\ UNCHANGED <<pipelineVars, endpointVars, dataState, serviceState>>

SpecStrandAccess == SpecUSBHubInit /\ [][StrandAccessNext]_vars

\* The buffer specification: views are constructed with every constructor
\* over data of 0..MaxDataSize bytes at offsets 0..MaxDataOffset.
DataNext ==
    \/ DataFromPointer
         /\ UNCHANGED <<pipelineVars, endpointVars, strandAccessState, serviceState>>
    \/ DataFromData
         /\ UNCHANGED <<pipelineVars, endpointVars, strandAccessState, serviceState>>

SpecData == SpecUSBHubInit /\ [][DataNext]_vars

\* The steps of the Messenger's receive side that the program takes by
\* itself: the tasks waiting on the strands and the completions of the
\* physical reads. The enqueueReceive calls are the service channels' choice.
MessengerReceiveProgress ==
    \/ MessengerInStreamMessage
         /\ UNCHANGED <<unitVars, endpointVars, promiseVars, linkVars, transportState, messengerSend, mStop>>
    \/ MessengerInterleavedMessage
         /\ UNCHANGED <<unitVars, endpointVars, promiseVars, linkVars, transportState, messengerSend, mStop>>
    \/ InStreamStartReceive
         /\ UNCHANGED <<unitVars, endpointVars, promiseVars, linkVars, transportState, messengerState>>
    \/ InStreamHeader
         /\ UNCHANGED <<unitVars, endpointVars, promiseVars, linkVars, transportState, messengerState>>
    \/ InStreamSize
         /\ UNCHANGED <<unitVars, endpointVars, promiseVars, linkVars, transportState, messengerState>>
    \/ InStreamPayload
         /\ UNCHANGED <<unitVars, endpointVars, promiseVars, linkVars, transportState, messengerState>>
    \/ TransportRunReceive
         /\ UNCHANGED <<unitVars, endpointVars, promiseVars, linkVars, inStreamState, rStrand, messengerState>>
    \/ Transport_receiveHandler
         /\ UNCHANGED <<unitVars, endpointVars, promiseVars, inStreamState, rStrand, messengerState>>

\* The Messenger's receive specification with the scheduling of the
\* io_service: a task waiting on a strand is run, and a physical read of a
\* link that has bytes completes.
SpecMessengerLive ==
    SpecMessengerInit /\ [][MessengerReceiveNext]_vars /\ WF_vars(MessengerReceiveProgress)

\* The frames of a message of channel 1 with two off-channel messages inside
\* it: FIRST(1), BULK(a), MIDDLE(1), BULK(b), LAST(1).
TwoOffChannelFrames(a, b) ==
    <<[channelId |-> 1, type |-> "FIRST"], [channelId |-> a, type |-> "BULK"],
      [channelId |-> 1, type |-> "MIDDLE"], [channelId |-> b, type |-> "BULK"],
      [channelId |-> 1, type |-> "LAST"]>>

\* The Messenger's receive specification for two off-channel messages: the
\* peer sends TwoOffChannelFrames(a, b) for any channels a and b other than
\* 1, the service channels make MaxReceives enqueueReceive calls on any
\* channels at any time.
SpecMessengerOffChannelInit ==
    /\ PromiseInit /\ TransportInit /\ InStreamInit
    /\ \E a, b \in Channels \ {1} :
           LinkInit(WithPayloads(TwoOffChannelFrames(a, b)),
                    EncodeStream(WithPayloads(TwoOffChannelFrames(a, b))), TRUE)
    /\ MessengerInit /\ EndpointsInit /\ UnitsInit

SpecMessengerOffChannel == SpecMessengerOffChannelInit /\ [][MessengerReceiveNext]_vars

\* The steps of the service channels.
ServiceNext ==
    \/ ServiceReceive
         /\ UNCHANGED <<pipelineVars, endpointVars, strandAccessState, dataState>>
    \/ ServiceMessage
         /\ UNCHANGED <<pipelineVars, endpointVars, strandAccessState, dataState>>

\* The service channel specification: the application calls receive() up to
\* MaxServiceReceives times, and up to MaxServiceMessages messages of any id
\* arrive for the receive promises.
SpecService == SpecUSBHubInit /\ [][ServiceNext]_vars

(***************************************************************************)
(* What the peer sent, read off the frames and off the bytes.              *)
(***************************************************************************)
RECURSIVE PayloadBetween(_, _, _, _)
\* The payloads of the frames j..k of fs that are of channel c, concatenated.
PayloadBetween(fs, j, k, c) ==
    IF j > k THEN <<>>
    ELSE (IF fs[j].channelId = c THEN fs[j].payload ELSE <<>>)
         \o PayloadBetween(fs, j + 1, k, c)

\* The frame that begins the message whose final frame is frame k of fs.
MessageStart(fs, k) ==
    IF fs[k].type = "BULK" THEN k
    ELSE CHOOSE j \in 1..k :
            /\ fs[j].channelId = fs[k].channelId /\ fs[j].type = "FIRST"
            /\ \A i \in (j + 1)..k :
                   ~(fs[i].channelId = fs[k].channelId /\ fs[i].type = "FIRST")

RECURSIVE SentMessages(_, _)
\* The messages whose final frame (BULK or LAST) is among the first n frames
\* of fs, in the order of their final frames, each with its channel and the
\* payloads of its own frames.
SentMessages(fs, n) ==
    IF n = 0 THEN <<>>
    ELSE SentMessages(fs, n - 1)
         \o (IF fs[n].type \in {"BULK", "LAST"}
             THEN <<[channelId |-> fs[n].channelId,
                     payload |-> PayloadBetween(fs, MessageStart(fs, n), n, fs[n].channelId)]>>
             ELSE <<>>)

RECURSIVE DecodeStream(_)
\* The frames a byte stream holds, read from its first byte to its last with
\* no regard to how the link cut it.
DecodeStream(bytes) ==
    IF Len(bytes) < FrameHeaderSize + FrameSizeShort THEN <<>>
    ELSE LET header == FrameHeader(Take(bytes, FrameHeaderSize))
             sizeLen == IF header.type = "FIRST" THEN FrameSizeExtended ELSE FrameSizeShort
             size == FrameSize_getSize(Take(Drop(bytes, FrameHeaderSize), sizeLen))
             start == FrameHeaderSize + sizeLen
         IN  <<[channelId |-> header.channelId, type |-> header.type,
                payload |-> SubSeq(bytes, start + 1, start + size)]>>
             \o DecodeStream(Drop(bytes, start + size))

\* The channel and payload of every message the stream emitted, in order.
EmittedMessages ==
    [k \in 1..Len(emitted) |->
        [channelId |-> emitted[k].message.channelId, payload |-> emitted[k].message.payload]]

\* C6: for every valid interleaving of well-formed plain messages, the
\* messages the MessageInStream has emitted through its main and interleaved
\* promises together, once it has handled n frames, are the messages whose
\* final BULK/LAST frame is among these n frames, in the order of their
\* final frames, each with its own channel id and the concatenation of its
\* own frames' payloads.
C6_EmitsSentMessages ==
    EmittedMessages = SentMessages(frames, framesDone)

\* The whole stream was handled; a message of three bytes or more (several
\* frames) left through the main promise after a message of another channel,
\* sent between its frames, left through the interleaved promise.
C6_Witness ==
    /\ framesDone = Len(frames)
    /\ \E j, k \in 1..Len(emitted) :
           /\ j < k
           /\ emitted[j].via = "interleaved"
           /\ emitted[k].via = "main"
           /\ Len(emitted[k].message.payload) >= 3
           /\ emitted[j].message.channelId /= emitted[k].message.channelId

\* C9: however the physical reads cut the byte stream, the bytes the
\* Transport has handed over are the stream's bytes in order, the messages
\* emitted so far are the first messages that the byte stream holds, and once
\* the last frame is handled they are all of them; the messages the stream
\* holds are read off the bytes alone.
C9_ChunkIndependent ==
    LET sent == SentMessages(DecodeStream(wireAll), Len(DecodeStream(wireAll)))
    IN  /\ Concat(ResolvedData) \o receivedDataSink_ = Delivered
        /\ IsPrefix(EmittedMessages, sent)
        /\ (wire = <<>> /\ framesDone = Len(frames)) => EmittedMessages = sent

\* The link delivered one byte per physical read down to the last byte, and
\* the stream emitted every message, one of them through the interleaved
\* promise.
C9_Witness ==
    /\ chunks = "bytewise"
    /\ wire = <<>>
    /\ framesDone = Len(frames)
    /\ Len(emitted) >= 2
    /\ \E k \in 1..Len(emitted) : emitted[k].via = "interleaved"

(***************************************************************************)
(* The Messenger's deliveries against what the peer sent.                  *)
(***************************************************************************)
\* The channel and payload of the messages the receive promises of channel c
\* were resolved with, in the order of the resolves.
ResolvedOn(c) ==
    LET mine == SelectSeq(delivered, LAMBDA d : d.kind = "resolve" /\ d.channelId = c)
    IN  [k \in 1..Len(mine) |->
            [channelId |-> mine[k].value.channelId, payload |-> mine[k].value.payload]]

\* The messages of channel c in the order the peer sent them.
SentOn(c) == SelectSeq(SentMessages(frames, Len(frames)), LAMBDA m : m.channelId = c)

\* C1: on every channel, the messages the receive promises of the channel
\* were resolved with are, in the order of the resolves, a prefix of the
\* channel's messages in the order the peer sent them: none reordered, none
\* skipped, whether they came by the main or by the interleaved promise.
C1_PerChannelOrder ==
    \A c \in Channels : IsPrefix(ResolvedOn(c), SentOn(c))

\* The stream of scenario S3: FIRST, MIDDLE and LAST of one channel (VIDEO)
\* with a BULK of another channel (INPUT) after the FIRST.
S3Stream ==
    /\ Len(frames) = 4
    /\ frames[1].type = "FIRST" /\ frames[2].type = "BULK"
    /\ frames[3].type = "MIDDLE" /\ frames[4].type = "LAST"
    /\ frames[2].channelId /= frames[1].channelId
    /\ frames[3].channelId = frames[1].channelId
    /\ frames[4].channelId = frames[1].channelId

\* The calls of scenario S3: enqueueReceive(VIDEO, p) then
\* enqueueReceive(INPUT, q), both before the stream has handled a frame.
S3Calls ==
    /\ Len(enqLog) = 2
    /\ enqLog[1] = [channelId |-> frames[1].channelId, framesDone |-> 0]
    /\ enqLog[2] = [channelId |-> frames[2].channelId, framesDone |-> 0]

\* C5: in scenario S3 the INPUT promise q never waits in the promise queue
\* while the INPUT message sits in the holding queue, and the VIDEO promise p
\* is settled only after q was resolved with the INPUT message.
C5_S3InputBeforeVideo ==
    (S3Stream /\ S3Calls) =>
        /\ ~(/\ channelReceivePromiseQueue_[frames[2].channelId] /= <<>>
             /\ channelReceiveMessageQueue_[frames[2].channelId] /= <<>>)
        /\ \A k \in 1..Len(delivered) :
               delivered[k].id = 1 =>
                   \E j \in 1..(k - 1) :
                       /\ delivered[j].id = 2 /\ delivered[j].kind = "resolve"
                       /\ delivered[j].value.channelId = frames[2].channelId

\* C10: a message that inStreamMessageHandler finds no promise waiting for
\* is appended to its channel's holding queue and settles nothing; and an
\* enqueueReceive(c, p) that finds a message held for c resolves p with the
\* oldest held message of c, takes it out of the holding queue, leaves the
\* promise queue as it was and issues no startReceive.
C10_RendezvousAfterTheFact ==
    [][/\ (/\ rStrand /= <<>>
           /\ rStrand' = Tail(rStrand)
           /\ Head(rStrand).handler = "inStreamMessageHandler"
           /\ channelReceivePromiseQueue_[Head(rStrand).arg.channelId] = <<>>)
          => /\ channelReceiveMessageQueue_' =
                    [channelReceiveMessageQueue_ EXCEPT ![Head(rStrand).arg.channelId] =
                        Append(@, Head(rStrand).arg)]
             /\ delivered' = delivered
       /\ (/\ Len(enqLog') = Len(enqLog) + 1
           /\ channelReceiveMessageQueue_[enqLog'[Len(enqLog')].channelId] /= <<>>)
          => LET c == enqLog'[Len(enqLog')].channelId
             IN  /\ Len(delivered') = Len(delivered) + 1
                 /\ SubSeq(delivered', 1, Len(delivered)) = delivered
                 /\ delivered'[Len(delivered')].id = Len(enqLog')
                 /\ delivered'[Len(delivered')].kind = "resolve"
                 /\ delivered'[Len(delivered')].posts
                 /\ delivered'[Len(delivered')].value = Head(channelReceiveMessageQueue_[c])
                 /\ channelReceiveMessageQueue_' =
                        [channelReceiveMessageQueue_ EXCEPT ![c] = Tail(@)]
                 /\ channelReceivePromiseQueue_' = channelReceivePromiseQueue_
                 /\ inStrand' = inStrand
                 /\ tStrand' = tStrand
      ]_vars

\* A message came through the main promise while no promise of its channel
\* was waiting, and a later enqueueReceive of that channel was resolved with
\* it on the spot.
C10_Witness ==
    \E k \in 1..Len(delivered) :
        /\ delivered[k].sync
        /\ delivered[k].kind = "resolve"
        /\ delivered[k].value.channelId = delivered[k].channelId
        /\ \E j \in 1..Len(emitted) :
               emitted[j].via = "main" /\ emitted[j].message = delivered[k].value

\* Nothing is left to run: the strands are idle, the out stream holds no
\* message and the link has delivered its last byte.
Quiescent ==
    /\ tStrand = <<>> /\ inStrand = <<>> /\ rStrand = <<>> /\ sStrand = <<>>
    /\ outStream = <<>>
    /\ wire = <<>>

\* C3: once stop() has run and nothing is left to run, no receive promise
\* enqueued before it waits in a promise queue and no send promise enqueued
\* before it waits in the send queue: stop() has rejected them all.
C3_StopRejectsPending ==
    (mStop = "stopped" /\ Quiescent) =>
        /\ \A c \in Channels : \A k \in 1..Len(channelReceivePromiseQueue_[c]) :
               channelReceivePromiseQueue_[c][k].afterStop
        /\ \A k \in 1..Len(channelSendPromiseQueue_) : channelSendPromiseQueue_[k].afterStop

\* C4: a promise passed to enqueueReceive or enqueueSend after stop() has
\* run is rejected at once: it never waits in a queue, it is never resolved,
\* and its message is never handed to the out stream.
C4_RejectsAfterStop ==
    /\ \A c \in Channels : \A k \in 1..Len(channelReceivePromiseQueue_[c]) :
           ~channelReceivePromiseQueue_[c][k].afterStop
    /\ \A k \in 1..Len(channelSendPromiseQueue_) : ~channelSendPromiseQueue_[k].afterStop
    /\ \A k \in 1..Len(delivered) : delivered[k].afterStop => delivered[k].kind = "reject"
    /\ \A k \in 1..Len(sendSettled) : sendSettled[k].afterStop => sendSettled[k].kind = "reject"
    /\ \A k \in 1..Len(streamed) : ~streamed[k].afterStop

\* The resolves and rejects of the receive promises of channel c, in order.
SettledOn(c) == SelectSeq(delivered, LAMBDA d : d.channelId = c)

\* C11: with p1 then p2 enqueued on one channel c before the stream has
\* handled a frame, neither is ever rejected, the first channel-c message the
\* peer sent resolves p1 and the second resolves p2.
C11_SameChannelFifo ==
    \A c \in Channels :
        (/\ Len(enqLog) >= 2
         /\ enqLog[1] = [channelId |-> c, framesDone |-> 0]
         /\ enqLog[2] = [channelId |-> c, framesDone |-> 0])
        => \A k \in 1..Len(SettledOn(c)) :
               k <= 2 =>
                   /\ SettledOn(c)[k].kind = "resolve"
                   /\ SettledOn(c)[k].id = k
                   /\ k <= Len(SentOn(c))
                   /\ SettledOn(c)[k].value.payload = SentOn(c)[k].payload

\* C12: the messages are handed to the MessageOutStream in the order their
\* enqueueSend tasks ran on the send strand, the out stream holds at most one
\* message at a time, and a caller's send promise is resolved only after the
\* out stream resolved the promise of stream() for that same message.
C12_SendGlobalFifo ==
    /\ \A j, k \in 1..Len(streamed) : j < k => streamed[j].id < streamed[k].id
    /\ Len(outStream) <= 1
    /\ \A k \in 1..Len(sendSettled) :
           sendSettled[k].kind = "resolve"
           => \E j \in 1..Len(outSettled) :
                  outSettled[j] = [id |-> sendSettled[k].id, kind |-> "resolve"]

\* Two sends were resolved, a third is in the out stream and a fourth waits
\* behind it in the queue.
C12_Witness ==
    /\ Len(sendSettled) >= 2
    /\ \A k \in 1..Len(sendSettled) : sendSettled[k].kind = "resolve"
    /\ Len(outStream) = 1
    /\ Len(channelSendPromiseQueue_) >= 2

\* C13: a startReceive called while the main promise of an earlier
\* startReceive is still held rejects the new promise with
\* OPERATION_IN_PROGRESS and leaves promise_, the current message and the
\* map of suspended messages as they were.
C13_InProgressRejected ==
    [][(ConsumerStartReceive /\ promise_ /= NullPtr)
       => /\ inProgress' = inProgress + 1
          /\ UNCHANGED <<promise_, message_, messageBuffer_, isNewMessage_, tStrand>>]_vars

\* A startReceive was rejected while the stream held its main promise, a
\* partly assembled message and a suspended message of another channel.
C13_Witness ==
    /\ inProgress >= 1
    /\ promise_ /= NullPtr
    /\ message_ /= NullPtr
    /\ \E c \in Channels : messageBuffer_[c] /= NullPtr

\* The startReceive calls of the Messenger that are under way: dispatched to
\* the stream's strand, held by the stream as promise_, or completed by the
\* stream with the completion handler still waiting on receiveStrand_.
StartReceivesInFlight ==
    Len(SelectSeq(inStrand, LAMBDA t : t.handler = "startReceive"))
    + (IF promise_ = NullPtr THEN 0 ELSE 1)
    + Len(SelectSeq(rStrand, LAMBDA t : t.handler \in {"inStreamMessageHandler",
                                                       "rejectReceivePromiseQueue"}))

\* C14: the Messenger never has more than one startReceive under way, and
\* none of its requests is rejected with OPERATION_IN_PROGRESS, whatever the
\* channels of the pending promises.
C14_SingleStartReceive ==
    /\ StartReceivesInFlight <= 1
    /\ inProgress = 0

\* Promises are pending on two channels, the stream has completed a message
\* and the completion handler has issued the next startReceive, which the
\* stream accepted.
C14_Witness ==
    /\ \E c, d \in Channels :
           /\ c /= d
           /\ channelReceivePromiseQueue_[c] /= <<>>
           /\ channelReceivePromiseQueue_[d] /= <<>>
    /\ emitted /= <<>>
    /\ StartReceivesInFlight = 1
    /\ promise_ /= NullPtr

\* C15: the subclass has at most one element to write at any time, a send
\* call hands its element to the subclass exactly when the send queue was
\* empty before the push, and the elements are started in the order of the
\* send calls: the k-th one started is that of the k-th call.
C15_TransportSendFifo ==
    [][/\ Len(physSends') <= 1
       /\ \A k \in 1..Len(tSendStarted') : tSendStarted'[k].id = k
       /\ tSendCalls' = tSendCalls + 1
          => (tSendStarted' /= tSendStarted <=> sendQueue_ = <<>>)]_vars

\* Two writes have completed, a third element is being written and a fourth
\* waits behind it.
C15_Witness ==
    /\ Len(tSendSettled) >= 2
    /\ Len(tSendStarted) = 3
    /\ Len(physSends) = 1
    /\ Len(sendQueue_) = 2

\* A step that is a receive call: the call took the next request number.
ReceiveCalled == tNextId' = tNextId + 1

\* Whether the request of the receive call of this step asks for 0 bytes: the
\* request is the last one of the queue, or, when the call resolved it, the
\* last one resolved.
ZeroRequested ==
    IF Len(receiveQueue_') > Len(receiveQueue_)
    THEN receiveQueue_'[Len(receiveQueue_')].size = 0
    ELSE tResolved'[Len(tResolved')].size = 0

\* The receive call of this step resolved its request with empty data and
\* issued no physical read.
ResolvedAtOnce ==
    /\ tResolved' = Append(tResolved, [id |-> tNextId, size |-> 0, data |-> <<>>])
    /\ receiveQueue_' = receiveQueue_
    /\ physReads' = physReads

\* C16: a receive request for 0 bytes made while no request is queued is
\* resolved by the call itself, with empty data and without a physical read;
\* made behind queued requests it is queued, again without a physical read,
\* and it never stays at the head of the queue.
C16_ZeroSizeAtHead ==
    [][/\ (ReceiveCalled /\ ZeroRequested)
          => IF receiveQueue_ = <<>> THEN ResolvedAtOnce
             ELSE /\ receiveQueue_' = Append(receiveQueue_,
                          [size |-> 0, promise |-> ClientPromise, id |-> tNextId])
                  /\ tResolved' = tResolved
                  /\ physReads' = physReads
       /\ receiveQueue_' /= <<>> => Head(receiveQueue_').size /= 0]_vars

\* A request for 0 bytes was resolved by its call, and a later one is queued
\* behind a request that waits for bytes.
C16_Witness ==
    /\ \E k \in 1..Len(tResolved) : tResolved[k].size = 0 /\ tResolved[k].data = <<>>
    /\ Len(receiveQueue_) >= 2
    /\ \E j \in 2..Len(receiveQueue_) : receiveQueue_[j].size = 0

\* C16 as the specification states it: every receive request for 0 bytes is
\* resolved by its call, with empty data and without a physical read.
C16_ZeroSizeImmediate ==
    [][(ReceiveCalled /\ ZeroRequested) => ResolvedAtOnce]_vars

\* The numbers of the requests of a sequence of requests or settlements.
IdsOf(seq) == {seq[k].id : k \in 1..Len(seq)}

\* What holds of the receive requests in every state, with and without stop().
PendingUntilStop ==
    /\ \A k \in 1..Len(tResolved) : Len(tResolved[k].data) = tResolved[k].size
    /\ IdsOf(tResolved) \cup IdsOf(tRejected) \cup IdsOf(receiveQueue_) = 1..(tNextId - 1)
    /\ Len(tResolved) + Len(tRejected) + Len(receiveQueue_) = tNextId - 1
    /\ receiveQueue_ /= <<>> => physReads = 1
    /\ tStop = "running" => tRejected = <<>>
    /\ \A k \in 1..Len(tRejected) : tRejected[k].error = "OPERATION_ABORTED"
    /\ tRejected /= <<>> => receiveQueue_ = <<>>

PendingReceiveIds ==
    UNION {IdsOf(channelReceivePromiseQueue_[c]) : c \in Channels}

\* The step in which receiveStrand_ runs the reject handler of the promise
\* the Messenger gave to startReceive.
InStreamRejectionHandled ==
    /\ rStrand /= <<>>
    /\ Head(rStrand).handler = "rejectReceivePromiseQueue"
    /\ rStrand' = Tail(rStrand)

\* C18: when the stream rejects the Messenger's startReceive promise with
\* error e, the handler rejects every receive promise pending on any channel
\* with e, each once, leaves the promise queue empty and leaves the holding
\* queues of the messages already received as they were.
C18_RejectAllReceives ==
    [][InStreamRejectionHandled
       => LET new == SubSeq(delivered', Len(delivered) + 1, Len(delivered'))
          IN  /\ IsPrefix(delivered, delivered')
              /\ IdsOf(new) = PendingReceiveIds
              /\ Len(new) = Cardinality(PendingReceiveIds)
              /\ \A k \in 1..Len(new) :
                     new[k].kind = "reject" /\ new[k].value = Head(rStrand).arg
              /\ ChannelReceivePromiseQueue_empty(channelReceivePromiseQueue_')
              /\ channelReceiveMessageQueue_' = channelReceiveMessageQueue_]_vars

\* Promises of two channels were rejected with the error of the failed read
\* while a message of a third channel stays in its holding queue.
C18_Witness ==
    /\ \E j, k \in 1..Len(delivered) :
           /\ delivered[j].kind = "reject" /\ delivered[k].kind = "reject"
           /\ delivered[j].channelId /= delivered[k].channelId
           /\ delivered[j].value = delivered[k].value
           /\ delivered[j].value \in ReadErrors
    /\ \E c \in Channels : channelReceiveMessageQueue_[c] /= <<>>
    /\ ChannelReceivePromiseQueue_empty(channelReceivePromiseQueue_)

\* The step in which sendStrand_ runs the reject handler of the promise the
\* Messenger gave to the out stream.
OutStreamRejectionHandled ==
    /\ sStrand /= <<>>
    /\ Head(sStrand).handler = "rejectSendPromiseQueue"
    /\ sStrand' = Tail(sStrand)

\* C19: when the out stream rejects the message being sent with error e, the
\* handler rejects with e the promise of that message and of every message
\* queued behind it, in their order, and leaves the send queue empty; an
\* enqueueSend on the empty queue hands its message to the out stream.
C19_RejectAllSends ==
    [][/\ OutStreamRejectionHandled
          => /\ sendSettled' = sendSettled \o
                    [k \in 1..Len(channelSendPromiseQueue_) |->
                        [id |-> channelSendPromiseQueue_[k].id, channelId |-> 0,
                         kind |-> "reject", value |-> Head(sStrand).arg, sync |-> FALSE,
                         afterStop |-> FALSE, posts |-> TRUE]]
             /\ channelSendPromiseQueue_ /= <<>>
             /\ Head(channelSendPromiseQueue_).id = outSettled[Len(outSettled)].id
             /\ channelSendPromiseQueue_' = <<>>
       /\ (sendLog' = sendLog + 1 /\ channelSendPromiseQueue_ = <<>>)
          => /\ outStream' = Append(outStream, [id |-> sendLog + 1, afterStop |-> FALSE,
                                                promise |-> OutStreamPromise])
             /\ streamed' = Append(streamed, outStream'[Len(outStream')])]_vars

\* A failed write rejected the message being sent and the one behind it,
\* and a message enqueued afterwards is in the out stream.
C19_Witness ==
    /\ Len(sendSettled) >= 2
    /\ \A k \in 1..Len(sendSettled) : sendSettled[k].kind = "reject"
    /\ channelSendPromiseQueue_ /= <<>>
    /\ outStream /= <<>>
    /\ Head(outStream).id = Head(channelSendPromiseQueue_).id
    /\ Head(outStream).id > Len(sendSettled)

\* The step in which the payload handler's decrypt throws.
DecryptFailed ==
    /\ Len(inRejected') = Len(inRejected) + 1
    /\ framesDone' = framesDone + 1

\* Every message the stream emitted is a whole message the peer sent: its
\* channel and all the payload bytes of its frames.
OnlyWholeMessages ==
    LET sent == SentMessages(frames, Len(frames))
    IN  \A k \in 1..Len(emitted) :
            \E j \in 1..Len(sent) : EmittedMessages[k] = sent[j]

\* C20: when the decryption of a frame's payload fails, the main promise is
\* rejected with the decryption error and reset, the message being assembled
\* is dropped, and no message made of only some of the frames of a message
\* is delivered, through the main or the interleaved promise.
C20_DecryptFailureDiscards ==
    /\ [][DecryptFailed
          => /\ promise_ /= NullPtr
             /\ promise_' = NullPtr
             /\ message_' = NullPtr
             /\ inRejected' = Append(inRejected, "SSL_READ")
             /\ emitted' = emitted]_vars
    /\ []OnlyWholeMessages

(***************************************************************************)
(* Claims about the USBEndpoint, the TCPEndpoint and the USBHub.           *)
(***************************************************************************)
\* The last element of a non-empty sequence.
Last(s) == s[Len(s)]

\* The uint32_t that carries the small native code n (two's complement for
\* a negative one), as its two 16-bit halves.
NativeCode(n) == IF n >= 0 THEN [hi |-> 0, lo |-> n] ELSE [hi |-> 65535, lo |-> 65536 + n]

\* OPERATION_ABORTED, which carries no native code.
OperationAborted == [code |-> "OPERATION_ABORTED", nativeCode |-> NativeCode(0)]

\* This step is transferHandler settling the promise of a transfer it held.
TransferCompletes ==
    /\ usbSubmitted' /= usbSubmitted
    /\ epRequests' = epRequests
    /\ Len(epSettled') = Len(epSettled) + 1

\* This step is a transfer request whose transfer libusb refused.
SubmitRefused ==
    /\ epRequests' = epRequests + 1
    /\ ~USBEndpoint_invalidTransferMethod(epLast'.method, endpointAddress_)
    /\ epLast'.alloc
    /\ epLast'.submitResult /= LIBUSB_SUCCESS

\* This step is asyncOperationHandler settling the promise of an operation.
OperationCompletes == Len(tcpSettled') = Len(tcpSettled) + 1

\* This step is a cancel() of the hub.
HubCancels == hubCancels' = hubCancels + 1

\* What C21 asks of every step.
CancellationSurfaces ==
    /\ TransferCompletes =>
         LET r == Last(epSettled')
             status == epCallback'.status
         IN  /\ status = LIBUSB_TRANSFER_COMPLETED <=> r.kind = "resolve"
             /\ status = LIBUSB_TRANSFER_CANCELLED =>
                    r.kind = "reject" /\ r.arg = OperationAborted
             /\ status \notin {LIBUSB_TRANSFER_COMPLETED, LIBUSB_TRANSFER_CANCELLED} =>
                    /\ r.kind = "reject"
                    /\ r.arg = [code |-> "USB_TRANSFER", nativeCode |-> NativeCode(status)]
    /\ SubmitRefused =>
         /\ Len(epSettled') = Len(epSettled) + 1
         /\ Last(epSettled').kind = "reject"
         /\ Last(epSettled').arg = [code |-> "USB_TRANSFER",
                                    nativeCode |-> NativeCode(epLast'.submitResult)]
    /\ OperationCompletes =>
         LET r == Last(tcpSettled')
         IN  /\ r.ec = 0 <=> r.kind = "resolve"
             /\ r.ec = operation_aborted => r.kind = "reject" /\ r.arg = OperationAborted
             /\ r.ec \notin {0, operation_aborted} =>
                    /\ r.kind = "reject"
                    /\ r.arg = [code |-> "TCP_TRANSFER", nativeCode |-> NativeCode(r.ec)]
    /\ (HubCancels /\ hotplugPromise_ /= NullPtr) =>
         /\ Len(hubSettled') = Len(hubSettled) + 1
         /\ Last(hubSettled').promise = hotplugPromise_.id
         /\ Last(hubSettled').kind = "reject"
         /\ Last(hubSettled').arg = OperationAborted

HubUnchanged == UNCHANGED <<hotplugPromise_, hubSelf_, queryChainQueue_, hubStrand, hubSettled>>

\* What C22 asks of every step that is a cancel().
CancelStops ==
    HubCancels =>
        /\ hubSettled' = hubSettled \o
               (IF hotplugPromise_ /= NullPtr
                THEN <<[promise |-> hotplugPromise_.id, kind |-> "reject",
                        arg |-> OperationAborted, by |-> "cancel"]>>
                ELSE <<>>)
        /\ hotplugPromise_' = NullPtr
        /\ ~hubSelf_'
        /\ Len(queryChainQueue_') = Len(queryChainQueue_)
        /\ \A k \in 1..Len(queryChainQueue_) :
               /\ queryChainQueue_'[k].chain = queryChainQueue_[k].chain
               /\ queryChainQueue_'[k].cancelled
        /\ (hotplugPromise_ = NullPtr /\ ~hubSelf_) => HubUnchanged

\* C22 (amended): cancel() rejects the discovery promise the hub holds, if
\* any, with OPERATION_ABORTED, cancels every query chain of the queue and
\* unregisters the hotplug callback; a cancel() on a hub that holds no
\* promise rejects nothing, and a cancel() on a hub that was never started,
\* or was cancelled and not started since, changes nothing.
C22_CancelStops == [][CancelStops]_vars

\* C22 as stated: every cancel() on a hub that holds no promise changes
\* nothing.
C22_CancelWithoutPromiseIdle ==
    [][(HubCancels /\ hotplugPromise_ = NullPtr) => HubUnchanged]_vars

\* cancel() was called twice: the first rejected the discovery promise and
\* cancelled a query chain under way, which is still in the queue.
C22_Witness ==
    /\ hubCancels = 2
    /\ \E k \in 1..Len(hubSettled) : hubSettled[k].by = "cancel"
    /\ hotplugPromise_ = NullPtr /\ ~hubSelf_
    /\ queryChainQueue_ /= <<>>

\* This step is the arrival of a device.
DeviceArrives == hubArrivals' = hubArrivals + 1

\* The device that arrives in this step is opened and its descriptor read.
DeviceOpened == hubDevice'.descriptorResult /\ hubDevice'.openResult

\* The device that arrives in this step is in accessory mode.
InAccessoryMode ==
    /\ hubDevice'.deviceDescriptor.idVendor = "cGoogleVendorId"
    /\ hubDevice'.deviceDescriptor.idProduct \in {"cAOAPId", "cAOAPWithAdbId"}

\* What C23 asks of every step.
ResolvedByAccessory ==
    /\ \A k \in 1..Len(hubSettled') :
           (k > Len(hubSettled) /\ hubSettled'[k].kind = "resolve") =>
               /\ DeviceArrives /\ DeviceOpened /\ InAccessoryMode
               /\ hotplugPromise_ /= NullPtr
               /\ hubSettled' = Append(hubSettled,
                      [promise |-> hotplugPromise_.id, kind |-> "resolve",
                       arg |-> [handle |-> hubArrivals'], by |-> "handleDevice"])
    /\ (DeviceArrives /\ DeviceOpened /\ InAccessoryMode /\ hotplugPromise_ /= NullPtr) =>
           /\ Len(hubSettled') = Len(hubSettled) + 1
           /\ Last(hubSettled').kind = "resolve"
           /\ hotplugPromise_' = NullPtr
           /\ UNCHANGED queryChainQueue_
    /\ (DeviceArrives /\ DeviceOpened /\ ~InAccessoryMode /\ hotplugPromise_ /= NullPtr) =>
           /\ Len(queryChainQueue_') = Len(queryChainQueue_) + 1
           /\ Last(queryChainQueue_').handle = hubArrivals'
           /\ ~Last(queryChainQueue_').settled
           /\ UNCHANGED <<hotplugPromise_, hubSettled>>
    /\ hubStrand' /= hubStrand => UNCHANGED <<hotplugPromise_, hubSettled>>

HubStarts == hubStarts' = hubStarts + 1

\* C24: a start() called while the promise of an earlier start() is still
\* pending queues the new request: it does not reject the promise the hub
\* holds, which stays the one an arriving accessory resolves.
C24_SecondStartQueues ==
    [][(HubStarts /\ hotplugPromise_ /= NullPtr) =>
           /\ hubSettled' = hubSettled
           /\ hotplugPromise_' = hotplugPromise_]_vars

\* The settlements of the promise of request p, in order.
SettlementsOf(p) == SelectSeq(epSettled, LAMBDA r : r.promise = p)

\* The promise of request p is held in transfers_ with its transfer.
UnderWay(p) == \E e \in transfers_ : e.promise = p

\* Every request made so far is under way, with its transfer accepted by
\* libusb and not completed, or has settled its promise exactly once.
SettledOnceOrUnderWay ==
    /\ \A p \in 1..epRequests :
           IF UnderWay(p)
           THEN SettlementsOf(p) = <<>>
           ELSE Len(SettlementsOf(p)) = 1
    /\ {e.transfer : e \in transfers_} = usbSubmitted
    /\ Len(epSettled) + Cardinality(transfers_) = epRequests

\* What C25 asks of every step.
SettleSteps ==
    /\ epRequests' = epRequests + 1 =>
         LET p == epRequests'
             settled == epSettled' = Append(epSettled, Last(epSettled'))
             rejectedWith(e) ==
                 /\ settled
                 /\ Last(epSettled') = [promise |-> p, kind |-> "reject", arg |-> e]
         IN  IF USBEndpoint_invalidTransferMethod(epLast'.method, endpointAddress_)
             THEN rejectedWith([code |-> "USB_INVALID_TRANSFER_METHOD",
                                nativeCode |-> NativeCode(0)])
             ELSE IF ~epLast'.alloc
             THEN rejectedWith([code |-> "USB_TRANSFER_ALLOCATION",
                                nativeCode |-> NativeCode(0)])
             ELSE IF epLast'.submitResult /= LIBUSB_SUCCESS
             THEN rejectedWith([code |-> "USB_TRANSFER",
                                nativeCode |-> NativeCode(epLast'.submitResult)])
             ELSE epSettled' = epSettled /\ transfers_' = transfers_ \cup
                                                {[transfer |-> p, promise |-> p]}
    /\ usbCancelled' /= usbCancelled => UNCHANGED <<epSettled, transfers_>>
    /\ usbSubmitted' \subseteq usbSubmitted /\ usbSubmitted' /= usbSubmitted =>
         LET t == epCallback'.transfer
         IN  /\ usbSubmitted' = usbSubmitted \ {t}
             /\ epSettled' = Append(epSettled, Last(epSettled'))
             /\ Last(epSettled').promise = t
             /\ IF epCallback'.status = LIBUSB_TRANSFER_COMPLETED
                THEN /\ Last(epSettled').kind = "resolve"
                     /\ Last(epSettled').arg = [actual_length |-> epCallback'.actual_length]
                ELSE Last(epSettled').kind = "reject"
             /\ transfers_' = transfers_ \ {[transfer |-> t, promise |-> t]}
    /\ epStray' /= epStray => UNCHANGED <<epSettled, transfers_>>

\* C25: every transfer request of the USBEndpoint settles its promise
\* exactly once: it is rejected in the call for a wrong transfer method or
\* a failed allocation, rejected with USB_TRANSFER(submit result) when the
\* submission is refused, and otherwise held until the completion callback
\* of its transfer, which resolves it with actual_length or rejects it,
\* once, also after cancelTransfers (which itself settles nothing); a
\* callback for a transfer that is not in transfers_ settles nothing.
C25_SettlesOnce == []SettledOnceOrUnderWay /\ [][SettleSteps]_vars

\* Two transfers were submitted and cancelTransfers called: one ended as
\* cancelled, the other completed with 2 bytes, each settled once, and a
\* further callback for a completed transfer settled nothing.
C25_Witness ==
    /\ epRequests = 2 /\ transfers_ = {} /\ epStray = 1
    /\ usbCancelled = {1, 2}
    /\ \E i, j \in 1..2 :
           /\ i /= j
           /\ SettlementsOf(i) = <<[promise |-> i, kind |-> "reject", arg |-> OperationAborted]>>
           /\ SettlementsOf(j) = <<[promise |-> j, kind |-> "resolve",
                                    arg |-> [actual_length |-> 2]]>>

\* The frame the payload handler is handling in a step, and the one before it.
HandledFrame == frames[framesDone + 1]

\* The payload handler handles a BULK frame of another channel that follows
\* at once the FIRST frame of the channel the main promise is receiving.
BulkAfterRequestedFirst ==
    /\ framesDone' = framesDone + 1
    /\ framesDone >= 1
    /\ HandledFrame.type = "BULK"
    /\ frames[framesDone].type = "FIRST"
    /\ frames[framesDone].channelId = originalMessageChannelId_
    /\ HandledFrame.channelId /= frames[framesDone].channelId

\* The payload handler handles the LAST frame of the channel the main promise
\* is receiving, whose FIRST frame a BULK frame of another channel followed
\* at once.
LastOfSuspended ==
    /\ framesDone' = framesDone + 1
    /\ HandledFrame.type = "LAST"
    /\ HandledFrame.channelId = originalMessageChannelId_
    /\ LET s == MessageStart(frames, framesDone + 1)
       IN  /\ frames[s + 1].type = "BULK"
           /\ frames[s + 1].channelId /= HandledFrame.channelId

\* What a step that handles such a frame does.
InterleavedBulk ==
    /\ BulkAfterRequestedFirst =>
          /\ emitted' = Append(emitted, Last(emitted'))
          /\ Last(emitted').via = "interleaved"
          /\ Last(emitted').message.channelId = HandledFrame.channelId
          /\ Last(emitted').message.payload = HandledFrame.payload
          /\ \A k \in 1..Len(emitted) :
                 emitted[k].message.payload /= frames[framesDone].payload
          /\ promise_ /= NullPtr
          /\ promise_' = promise_
          /\ message_' = NullPtr
          /\ messageBuffer_'[originalMessageChannelId_] /= NullPtr
          /\ messageBuffer_'[originalMessageChannelId_].payload = frames[framesDone].payload
    /\ LastOfSuspended =>
          /\ emitted' = Append(emitted, Last(emitted'))
          /\ Last(emitted').via = "main"
          /\ Last(emitted').message.channelId = HandledFrame.channelId
          /\ Last(emitted').message.payload
               = PayloadBetween(frames, MessageStart(frames, framesDone + 1),
                                framesDone + 1, HandledFrame.channelId)
          /\ \A b \in 1..Len(Last(emitted').message.payload) :
                 \A i \in 1..Len(frames) :
                     frames[i].channelId /= HandledFrame.channelId
                       => \A a \in 1..Len(frames[i].payload) :
                              Last(emitted').message.payload[b] /= frames[i].payload[a]
          /\ promise_ /= NullPtr
          /\ promise_' = NullPtr

\* C26: when a BULK frame of another channel follows at once the FIRST frame
\* of the channel the main promise is receiving, the payload handler of the
\* BULK frame hands the BULK message to the interleaved promise and leaves
\* the main promise unresolved, with the message the FIRST frame began
\* suspended in messageBuffer_; the LAST frame of that message then resolves
\* the main promise with the payloads of its own frames, FIRST to LAST, and
\* with no byte of another channel's frame.
C26_InterleavedBulk == [][InterleavedBulk]_vars

\* The stream was FIRST, then another channel's BULK, then the rest of the
\* first message; the BULK message left through the interleaved promise, then
\* the whole first message through the main promise.
C26_Witness ==
    /\ Len(frames) >= 3
    /\ frames[1].type = "FIRST"
    /\ frames[2].type = "BULK"
    /\ frames[2].channelId /= frames[1].channelId
    /\ Len(emitted) >= 2
    /\ emitted[1].via = "interleaved"
    /\ emitted[1].message.channelId = frames[2].channelId
    /\ emitted[2].via = "main"
    /\ emitted[2].message.channelId = frames[1].channelId
    /\ Len(emitted[2].message.payload) >= 2
    /\ promise_ = NullPtr

\* The running tasks that are callbacks of promises.
RunningCallbacks == {t \in running : t.promise \in PromiseIds}

\* Every callback runs on the executor its promise was constructed with, and
\* while a callback of a strand-bound promise runs no other task of the
\* strand does.
CallbacksOnBoundExecutor ==
    /\ \A k \in 1..Len(invoked) :
           invoked[k].promise \in PromiseIds => invoked[k].on = bound[invoked[k].promise]
    /\ \A t \in RunningCallbacks :
           bound[t.promise] = "strand" => RunningOn("strand") = {t}

\* A call of then, resolve or reject starts no task: the callbacks that have
\* started and the tasks that are running are what they were before the call.
CallsStartNothing ==
    prHist' /= prHist => running' = running /\ invoked' = invoked

\* C27: a promise's callback runs as a task of the io_service or strand the
\* promise was constructed with: resolve and reject start no callback
\* themselves, whichever thread calls them and whatever is running, and while
\* the callback of a strand-bound promise runs, no other task of that strand
\* does.
C27_CallbacksOnExecutor == []CallbacksOnBoundExecutor /\ [][CallsStartNothing]_vars

\* A promise constructed with the strand was settled while a thread was
\* running another task of the strand: its callback is posted to the strand
\* and has not started.
C27_Witness ==
    /\ \E t \in RunningOn("strand") : t.promise = 0
    /\ \E k \in 1..Len(posted) :
           /\ posted[k].promise \in PromiseIds
           /\ bound[posted[k].promise] = "strand"
           /\ posted[k].executor = "strand"
    /\ \E k \in 1..Len(prHist) : prHist[k].op \in {"resolve", "reject"} /\ prHist[k].posts

RECURSIVE BytesOut(_, _)
\* The bytes the first n completed bulk-OUT transfers carried for element id.
BytesOut(n, id) ==
    IF n = 0 THEN 0
    ELSE BytesOut(n - 1, id)
         + (IF bulkOut[n].id = id THEN bulkOut[n].bytesTransferred ELSE 0)

\* Whether the promise of element id was resolved or rejected.
SendSettled(id) == \E k \in 1..Len(tSendSettled) : tSendSettled[k].id = id

\* The transfers of the USBTransport so far: one at a time; each starts at
\* the offset the completed transfers of its element add up to; a transfer
\* that follows one of the same element starts at a greater offset, and one
\* that follows a transfer of another element starts at offset 0 after that
\* element's promise was settled and, unless it failed, all its bytes sent.
ChunksInSequence ==
    /\ Len(physSends) <= 1
    /\ \A k \in 1..Len(bulkOut) : bulkOut[k].offset = BytesOut(k - 1, bulkOut[k].id)
    /\ physSends /= <<>>
         => /\ physSends[1].offset = BytesOut(Len(bulkOut), physSends[1].id)
            /\ physSends[1].offset < Len(physSends[1].data)
            /\ physSends[1] = Last(tSendStarted)
    /\ \A k \in 1..(Len(tSendStarted) - 1) :
           LET a == tSendStarted[k]
               b == tSendStarted[k + 1]
           IN  IF a.id = b.id
               THEN b.offset > a.offset
               ELSE /\ b.offset = 0
                    /\ b.id = a.id + 1
                    /\ SendSettled(a.id)
    /\ \A k \in 1..Len(tSendSettled) :
           tSendSettled[k].kind = "resolve"
             => \E j \in 1..Len(tSendStarted) :
                    /\ tSendStarted[j].id = tSendSettled[k].id
                    /\ BytesOut(Len(bulkOut), tSendSettled[k].id) = Len(tSendStarted[j].data)

\* A step that resolves a send promise is the completion of the transfer
\* that carried the last bytes of its element; a step that completes a
\* transfer with bytes of the element left resolves nothing and starts the
\* next transfer of the same element.
ResolvesAfterLastChunk ==
    /\ (tSendSettled' /= tSendSettled /\ Last(tSendSettled').kind = "resolve")
         => /\ bulkOut' = Append(bulkOut, Last(bulkOut'))
            /\ Last(bulkOut').id = Last(tSendSettled').id
            /\ Last(bulkOut').id = Head(sendQueue_).id
            /\ Last(bulkOut').offset + Last(bulkOut').bytesTransferred
                 = Len(Head(sendQueue_).data)
    /\ (bulkOut' /= bulkOut
        /\ Last(bulkOut').offset + Last(bulkOut').bytesTransferred
             < Len(Head(sendQueue_).data))
         => /\ tSendSettled' = tSendSettled
            /\ sendQueue_' = sendQueue_
            /\ physSends' = <<[id |-> Head(sendQueue_).id, data |-> Head(sendQueue_).data,
                               offset |-> Last(bulkOut').offset
                                            + Last(bulkOut').bytesTransferred]>>

\* C28: the USBTransport sends an element longer than one bulk-OUT transfer
\* in transfers issued one after the other at increasing offsets, resolves
\* the element's promise in the step that completes the transfer carrying its
\* last bytes, when the transferred bytes add up to the element's length, and
\* starts the next queued element only after that.
C28_ChunkedSend == []ChunksInSequence /\ [][ResolvesAfterLastChunk]_vars

\* An element of three bytes went out in two transfers or more and its
\* promise was resolved; the element queued behind it was started afterwards.
C28_Witness ==
    /\ Len(tSendSettled) >= 1
    /\ tSendSettled[1].kind = "resolve"
    /\ Cardinality({k \in 1..Len(bulkOut) : bulkOut[k].id = tSendSettled[1].id}) >= 2
    /\ BytesOut(Len(bulkOut), tSendSettled[1].id) = 3
    /\ \E k \in 1..Len(tSendStarted) : tSendStarted[k].id = tSendSettled[1].id + 1

\* C29: between the tasks of receiveStrand_, no channel has both a receive
\* promise waiting in channelReceivePromiseQueue_ and a message held in
\* channelReceiveMessageQueue_: a message that arrives for a channel with a
\* waiting promise, by the main or by the interleaved promise, resolves the
\* oldest waiting promise instead of being held.
C29_NoWaiterWithHeldMessage ==
    \A c \in Channels :
        ~(/\ channelReceivePromiseQueue_[c] /= <<>>
          /\ channelReceiveMessageQueue_[c] /= <<>>)

\* The messages of channel c the stream is assembling: the current message,
\* if it is of channel c, and those suspended in messageBuffer_.
InProgressOn(c) ==
    (IF message_ /= NullPtr /\ message_.channelId = c THEN 1 ELSE 0)
      + Cardinality({k \in Channels : messageBuffer_[k] /= NullPtr
                                        /\ messageBuffer_[k].channelId = c})

\* C30: for every valid interleaving of well-formed messages, the
\* MessageInStream holds at most one message under assembly per channel,
\* the current message and the messages suspended in messageBuffer_ taken
\* together: a suspended message is kept under its own channel, and the
\* channel of the current message is no key of messageBuffer_.
C30_OneInProgressPerChannel ==
    /\ \A c \in Channels : InProgressOn(c) <= 1
    /\ \A c \in Channels : messageBuffer_[c] /= NullPtr => messageBuffer_[c].channelId = c
    /\ message_ /= NullPtr => messageBuffer_[message_.channelId] = NullPtr

\* The current message was suspended and restored (it holds the bytes of an
\* earlier frame and the frame being handled continues it) while the message
\* of another channel is suspended in messageBuffer_.
C30_Witness ==
    /\ message_ /= NullPtr
    /\ message_.payload /= <<>>
    /\ thisFrameType_ \in {"MIDDLE", "LAST"}
    /\ framesDone >= 2
    /\ frames[framesDone].channelId /= message_.channelId
    /\ \E c \in Channels : messageBuffer_[c] /= NullPtr /\ c /= message_.channelId

\* The functions in execution that read or write a member.
Accessing(member) == {f \in active : member \in Touches[f]}

\* The members of the Messenger and of the MessageInStream.
Members == UNION {Touches[f] : f \in DOMAIN Touches}

\* C31: every member of the Messenger and of the MessageInStream is read and
\* written only by functions running on the strand that owns it, so at any
\* time at most one function in execution accesses it; Messenger::stop() and
\* MessageInStream::setInterleavedHandler() included.
C31_OwnedByOneStrand ==
    \A member \in Members :
        /\ \A f \in Accessing(member) : RunsOn[f] = OwnerOf(member)
        /\ Cardinality(Accessing(member)) <= 1

\* strand_ is about to run receiveFrameHeaderHandler on the header of a
\* MIDDLE or LAST frame whose channel has no message suspended in
\* messageBuffer_ and is not the channel of the current message.
OrphanHeader ==
    /\ inStrand /= <<>>
    /\ Head(inStrand).handler = "receiveFrameHeaderHandler"
    /\ inStrand' = Tail(inStrand)
    /\ LET frameHeader == FrameHeader(Head(inStrand).arg)
       IN  /\ frameHeader.type \in {"MIDDLE", "LAST"}
           /\ messageBuffer_[frameHeader.channelId] = NullPtr
           /\ IF message_ = NullPtr THEN TRUE
              ELSE message_.channelId /= frameHeader.channelId

\* strand_ is about to run receiveFramePayloadHandler on the payload of a
\* LAST frame for which the header handler started a message.
OrphanLastPayload ==
    /\ inStrand /= <<>>
    /\ Head(inStrand).handler = "receiveFramePayloadHandler"
    /\ inStrand' = Tail(inStrand)
    /\ thisFrameType_ = "LAST"
    /\ message_.payload = <<>>

\* What the handlers do with such a frame.
TolerantRecovery ==
    /\ OrphanHeader =>
          /\ message_' = NewMessage(FrameHeader(Head(inStrand).arg))
          /\ message_'.channelId = HandledFrame.channelId
          /\ message_'.payload = <<>>
          /\ thisFrameType_' = HandledFrame.type
          /\ inRejected' = inRejected
          /\ promise_' = promise_
          /\ emitted' = emitted
          /\ Last(tStrand').promise.resolveHandler = "receiveFrameSizeHandler"
    /\ OrphanLastPayload =>
          /\ emitted' = Append(emitted, Last(emitted'))
          /\ Last(emitted').message.channelId = HandledFrame.channelId
          /\ Last(emitted').message.payload = HandledFrame.payload
          /\ inRejected' = inRejected

\* C32: the header handler, given a MIDDLE or LAST frame of a channel that
\* has no suspended message and is not the channel of the current message,
\* starts an empty message with the header's channel, encryption and message
\* type and goes on to read the frame's size, rejecting nothing; when the
\* frame is a LAST frame, the payload handler hands on a message of that
\* channel whose payload is that frame's payload alone.
C32_TolerantRecovery == [][TolerantRecovery]_vars

\* The stream began with a FIRST frame and a LAST frame of another channel,
\* which no FIRST frame preceded; the payload of the LAST frame left as a
\* message of its channel while the first message is suspended.
C32_Witness ==
    /\ frames[1].type = "FIRST"
    /\ frames[2].type = "LAST"
    /\ frames[2].channelId /= frames[1].channelId
    /\ framesDone = 2
    /\ Len(emitted) = 1
    /\ emitted[1].message.payload = frames[2].payload
    /\ emitted[1].message.channelId = frames[2].channelId
    /\ messageBuffer_[frames[1].channelId] /= NullPtr

\* The size of the data the last constructor was given: that of the Data
\* object, or the size passed with a pointer (no data behind a null one).
UnderlyingSize == IF dataCall.ptrNull THEN 0 ELSE dataCall.size

\* C33: whichever constructor of DataBuffer or DataConstBuffer built the
\* view, those taking a Data object included, an offset greater than the
\* size of the underlying data gives the null buffer (no pointer, size 0),
\* and any other offset a view of the data's size less the offset.
C33_OffsetSafety ==
    IF dataCall.offset > UnderlyingSize
    THEN dataView = NullBuffer
    ELSE dataView.size = UnderlyingSize - dataCall.offset

(***************************************************************************)
(* No stall of the Messenger's receive side.                               *)
(***************************************************************************)
\* A receive promise waits on channel c.
PendingOn(c) == channelReceivePromiseQueue_[c] /= <<>>

\* The messages of channel c the stream has completed and the resolves of
\* the receive promises of channel c.
CompletedOn(c) == Len(SelectSeq(emitted, LAMBDA e : e.message.channelId = c))
ResolvesOn(c) ==
    Len(SelectSeq(delivered, LAMBDA d : d.kind = "resolve" /\ d.channelId = c))

\* A receive promise waits on channel c while a complete message of the
\* channel has arrived that no promise was resolved with.
Stalled(c) == PendingOn(c) /\ CompletedOn(c) > ResolvesOn(c)

\* While a receive promise waits in the Messenger, a startReceive is under
\* way on the stream or its completion handler waits on receiveStrand_.
ReceiveInFlightWhilePending ==
    (\E c \in Channels : PendingOn(c)) => StartReceivesInFlight >= 1

\* C34: without stop() and without stream errors, a receive promise waiting
\* on channel c when a complete message of c has arrived is eventually
\* resolved: the state of a waiting promise with an undelivered message of
\* its channel does not last.
C34_NoStall ==
    \A c \in Channels : Stalled(c) ~> ~Stalled(c)

(***************************************************************************)
(* Conservation of the messages the stream completes.                      *)
(***************************************************************************)
\* The messages of channel c on their way to the Messenger: the arguments of
\* the message handlers waiting on receiveStrand_.
HandlersWaitingOn(c) ==
    Len(SelectSeq(rStrand,
            LAMBDA t : /\ t.handler \in {"inStreamMessageHandler",
                                         "interleavedMessageHandler"}
                       /\ t.arg.channelId = c))

\* The messages of channel c in the channel's holding queue.
HeldOn(c) == Len(channelReceiveMessageQueue_[c])

\* C35: without stop() and without errors, every message the stream
\* completes is in exactly one place: on its way to the Messenger, in its
\* channel's holding queue, or in the resolve of one receive promise of its
\* channel. None is lost, also not the second of two off-channel messages
\* that complete before interleavedMessageHandler has installed a fresh
\* interleaved promise.
C35_MessageConservation ==
    \A c \in Channels :
        CompletedOn(c) = HandlersWaitingOn(c) + HeldOn(c) + ResolvesOn(c)

(***************************************************************************)
(* The physical reads of the Transport.                                    *)
(***************************************************************************)
\* At most one physical read is outstanding, and one is outstanding exactly
\* while a request waits in the receive queue.
OneReadWhileWaiting ==
    /\ physReads <= 1
    /\ physReads = 1 <=> receiveQueue_ /= <<>>

\* A step that starts a physical read where none was outstanding is a
\* receive() that found the receive queue empty; a receiveHandler, which
\* ends the outstanding read, leaves one outstanding only if a request still
\* waits.
ReadsIssuedInTurn ==
    /\ physReads' > physReads =>
           /\ tNextId' = tNextId + 1
           /\ receiveQueue_ = <<>>
           /\ Len(receiveQueue_') = 1
    /\ wire' /= wire => (physReads = 1 /\ (physReads' = 1 <=> receiveQueue_' /= <<>>))

\* C36: the Transport has at most one physical read outstanding at any
\* time: a read is issued only by a receive() that found the queue empty or
\* by receiveHandler after the previous read completed, and none is issued
\* when the receive queue is empty.
C36_OnePhysicalRead == []OneReadWhileWaiting /\ [][ReadsIssuedInTurn]_vars

\* Two requests wait behind one outstanding read after an earlier request
\* was resolved: the second receive() issued no read of its own, and the
\* receiveHandler that resolved the earlier request issued none while the
\* queue was empty.
C36_Witness ==
    /\ Len(receiveQueue_) >= 2
    /\ physReads = 1
    /\ tResolved /= <<>>
    /\ wire /= wireAll

(***************************************************************************)
(* The self-reference and the transfers of the USBEndpoint.                *)
(***************************************************************************)
\* The transfers in flight: those transfers_ holds.
InFlight == {e.transfer : e \in transfers_}

\* Between the tasks of strand_, the endpoint holds self_ exactly while it
\* has transfers in flight, and no transfer in flight has been freed.
SelfWhileInFlight ==
    /\ endpointSelf_ <=> transfers_ /= {}
    /\ InFlight \cap usbFreed = {}

\* A transfer leaves transfers_ only in the handling of its completion
\* callback, which frees it; a transfer is freed while in flight only
\* there; a callback for a transfer that is not in flight frees nothing.
FreedAtCompletion ==
    /\ \A t \in InFlight :
           t \notin InFlight' =>
               /\ epCallback'.transfer = t
               /\ usbFreed' = usbFreed \cup {t}
               /\ InFlight' = InFlight \ {t}
    /\ \A t \in usbFreed' \ usbFreed :
           \/ t \in InFlight /\ t \notin InFlight'
           \/ /\ t = epRequests' /\ epRequests' = epRequests + 1
              /\ epLast'.submitResult /= LIBUSB_SUCCESS
              /\ t \notin InFlight'
    /\ epStray' /= epStray => UNCHANGED <<usbFreed, transfers_, endpointSelf_>>

\* C37: the USBEndpoint holds its self-reference exactly while it has
\* transfers in flight (self_ is non-null iff transfers_ is not empty
\* between any two tasks of strand_), and every submitted transfer is freed
\* exactly once, in the handling of its completion callback.
C37_SelfWhileInFlight == []SelfWhileInFlight /\ [][FreedAtCompletion]_vars

\* Of two transfers in flight one has completed and was freed; the endpoint
\* still holds self_ for the other.
C37_Witness ==
    /\ epRequests = 2
    /\ Cardinality(InFlight) = 1
    /\ Cardinality(usbFreed) = 1
    /\ endpointSelf_
    /\ Len(epSettled) = 1 /\ epSettled[1].kind = "resolve"

(***************************************************************************)
(* Promises settled before their callback is registered.                   *)
(***************************************************************************)
\* The callbacks of promise i that were posted or run.
DispatchedFor(i) ==
    Cardinality({k \in 1..Len(posted) : posted[k].promise = i})
      + Cardinality({k \in 1..Len(invoked) : invoked[k].promise = i})

\* A promise that resolve or reject was called on is terminal, and when the
\* first of these calls posted nothing, no callback of the promise is ever
\* dispatched, whatever then(), resolve() and reject() follow.
LostWhenSettledEarly ==
    \A i \in PromiseIds :
        SettleCalls(i) /= {} =>
            /\ ~isPending(promises[i])
            /\ \A k \in SettleCalls(i) :
                   (\A j \in SettleCalls(i) : k <= j) /\ ~prHist[k].posts
                       => DispatchedFor(i) = 0

\* A resolve on a promise without a resolve handler, and a reject on a
\* promise without a reject handler, post nothing and end the promise.
NothingWithoutHandler ==
    \A i \in PromiseIds :
        /\ Len(prHist') = Len(prHist) + 1
        /\ Last(prHist').promise = i
        /\ \/ Last(prHist').op = "resolve" /\ promises[i].resolveHandler = Null
           \/ Last(prHist').op = "reject" /\ promises[i].rejectHandler = Null
        => /\ posted' = posted
           /\ ~Last(prHist').posts
           /\ ~isPending(promises'[i])

\* C38: a promise resolved or rejected before then() registered the matching
\* callback becomes terminal without dispatching anything, and the callbacks
\* a later then() registers are never invoked: the value or error is lost.
\* A reject on a promise registered without a reject handler dispatches
\* nothing and makes a later resolve a no-op.
C38_LostWhenSettledEarly == []LostWhenSettledEarly /\ [][NothingWithoutHandler]_vars

\* then, reject, then, resolve on one promise: the reject of the pending
\* promise posted nothing (no reject handler was registered), the resolve
\* after it posted nothing, and the handler the second then() registered is
\* still in the promise, never invoked.
C38_Witness ==
    \E i \in PromiseIds :
        /\ Len(prHist) = 4
        /\ \A k \in 1..4 : prHist[k].promise = i /\ ~prHist[k].posts
        /\ prHist[1].op = "then" /\ prHist[2].op = "reject"
        /\ prHist[3].op = "then" /\ prHist[4].op = "resolve"
        /\ promises[i].resolveHandler /= Null
        /\ DispatchedFor(i) = 0

(***************************************************************************)
(* What a service channel does with a received message.                    *)
(***************************************************************************)
\* C39: for each message a service channel receives, messageHandler either
\* dispatches it to one callback of the event handler and does not call
\* receive(), or calls no callback and re-arms receive() once with the event
\* handler it was given, which is not empty; never both.
C39_DispatchOrRearm ==
    \A k \in 1..Len(handledMessages) :
        LET h == handledMessages[k]
        IN  \/ Len(h.callbacks) = 1 /\ h.receives = <<>>
            \/ /\ h.callbacks = <<>>
               /\ h.receives = <<h.eventHandler>>
               /\ h.eventHandler /= Null

(***************************************************************************)
(* The discovery promises of the USBHub.                                   *)
(***************************************************************************)
\* The settlements of the promise of the p-th start(), in order.
HubSettlementsOf(p) == SelectSeq(hubSettled, LAMBDA r : r.promise = p)

\* Every promise passed to start() was settled at most once, and the only
\* one not settled is the one the hub holds.
DiscoverySettledOnce ==
    \A p \in 1..hubStarts :
        /\ Len(HubSettlementsOf(p)) <= 1
        /\ HubSettlementsOf(p) = <<>> <=> hotplugPromise_ = [id |-> p]

\* A handleDevice run while the hub holds no promise opens no device,
\* settles nothing, starts no query chain and leaves the hub without promise.
ArrivalWithoutPromiseIgnored ==
    (hubArrivals' = hubArrivals + 1 /\ hotplugPromise_ = NullPtr) =>
        UNCHANGED <<hubOpened, hubSettled, queryChainQueue_, hubChains, hotplugPromise_>>

\* C40: every promise passed to USBHub.start() is settled at most once and
\* the hub holds at most one discovery promise at a time; a device arrival
\* handled while no discovery promise is held (after a resolve, after a
\* cancel) is ignored: no device is opened, no promise settled, no query
\* chain started.
C40_DiscoveryPromises == []DiscoverySettledOnce /\ [][ArrivalWithoutPromiseIgnored]_vars

\* start(p1), cancel(), and then the handleDevice of a device whose
\* descriptor can be read and that can be opened: p1 was rejected once by
\* the cancel, the device was not opened and no chain was started.
C40_Witness ==
    /\ hubStarts = 1 /\ hubCancels = 1 /\ hubArrivals = 1
    /\ hubDevice.descriptorResult /\ hubDevice.openResult
    /\ hubOpened = {}
    /\ hubChains = 0
    /\ Len(hubSettled) = 1 /\ hubSettled[1].by = "cancel"
    /\ hotplugPromise_ = NullPtr

=============================================================================
